---- MODULE Spec2Model ----
(***************************************************************************)
(* A model of the omnitype type system (src/src/types/mod.rs), of its      *)
(* constraint solver (src/src/constraint_solver/mod.rs), of the traces of  *)
(* its runtime tracer (src/src/tracer/mod.rs), of the check command        *)
(* (src/src/main.rs) and of the terminal UI (src/src/ui/mod.rs).           *)
(*                                                                         *)
(* A Type value is a record with one shape for every variant, so that any *)
(* two types can be compared:                                              *)
(*   tag   the variant's name                                              *)
(*   args  the variant's Type children in declaration order: List/Set     *)
(*         hold one, Dict holds key then value, Tuple/Union hold their    *)
(*         items, Function and Generic hold their params                   *)
(*   ret   <<returns>> for Function, <<>> otherwise                        *)
(*   id    the TypeVar's u32 for Var, 0 otherwise                          *)
(*   name  the String of Named/Generic as a sequence of bytes, <<>>       *)
(*         otherwise                                                       *)
(***************************************************************************)
EXTENDS Integers, Sequences, FiniteSets, TLC

VARIABLES
    \* ---- Type::union_of applied to drawn inputs
    u_pc,            \* "idle" | "input" | "called" | "shuffled" | "reapplied" | "nested"
                     \* | "flattened"
    u_types,         \* the Vec<Type> handed to union_of
    u_result,        \* <<>> before the call, <<union_of(u_types)>> after it
    u_other,         \* a second Vec<Type> derived from the first
    u_other_result,  \* <<>> or <<union_of(u_other)>>
    \* ---- Ord / PartialEq applied to drawn inputs
    o_pc,            \* "idle" | "input" | "compared"
    o_a, o_b, o_c,   \* three types
    o_cmp,           \* the Orderings and equalities computed from them
    \* ---- ConstraintSolver
    pc,              \* "idle" | "pending" | "solving" | "solved" | "failed" | "panicked"
    next_var,        \* ConstraintSolver.next_var: a u32 as two 16-bit limbs [hi, lo]
    constraints,     \* ConstraintSolver.constraints
    substitution,    \* ConstraintSolver.substitution: a function from var ids to Types
    added,           \* history: every constraint handed to add_constraint, in order
    issued,          \* history: every TypeVar id returned by fresh_var, in order
    applied,         \* history: every rule solve() applied, with its constraint, in order
    solve_result,    \* <<>> or <<the Result solve() returned>>
    \* ---- TypeEnv
    e_pc,            \* "idle" | "live"
    e_env,           \* the TypeEnv in hand: its scopes' bindings, its own last
    e_nested_from,   \* history: the environment each nested() was handed, in order
    e_last,          \* the last call made on e_env, with what it returned
    \* ---- TypeTrace
    t_pc,            \* "idle" | "tracing"
    t_variables,     \* TypeTrace.variables: a function from names to Vec<Type>
    t_functions,     \* TypeTrace.functions: a function from names to the argument
                     \* types and the return type of each call
    t_observed,      \* history: every (name, type) handed to add_variable, in order
    t_query,         \* <<>> or <<the name asked for and the Vec get_variable_types returned>>
    \* ---- Display applied to drawn inputs
    d_pc,            \* "idle" | "input" | "displayed"
    d_type,          \* the Type to_string() is called on
    d_text,          \* <<>> before the call, the String it returned after it
    \* ---- the check command
    c_pc,            \* "idle" | "input" | "exited"
    c_path,          \* what the path argument names: "missing" | "py_file" | "other_file" | "dir"
    c_files,         \* what analyze_python_file returns for each Python file under the path
    c_format,        \* the --format argument
    c_exit,          \* <<>> while running, <<the exit status of the process>> after
    \* ---- a traced value's type name converted to a Type
    p_pc,            \* "idle" | "input" | "emitted" | "converted" | "panicked"
    p_shape,         \* the traced Python value, as the Type that matches its structure
    p_name,          \* the type-name string the Python tracer emits for it
    p_type,          \* <<>> or <<convert_python_type_to_our_type(p_name)>>, the panic leaf
                     \* when the call panicked
    \* ---- the terminal UI
    a_pc,            \* "idle" | "draw" | "events" | "returned" | "failed": where App::run is
    app,             \* the App: a record of its fields
    a_drawn,         \* the content pane the last draw rendered, "" before the first
    a_quit_key       \* history: the handle_events call of this turn of the loop
                     \* processed a press of 'q'

u_vars == <<u_pc, u_types, u_result, u_other, u_other_result>>
o_vars == <<o_pc, o_a, o_b, o_c, o_cmp>>
s_vars == <<pc, next_var, constraints, substitution, added, issued, applied, solve_result>>
e_vars == <<e_pc, e_env, e_nested_from, e_last>>
t_vars == <<t_pc, t_variables, t_functions, t_observed, t_query>>
d_vars == <<d_pc, d_type, d_text>>
c_vars == <<c_pc, c_path, c_files, c_format, c_exit>>
p_vars == <<p_pc, p_shape, p_name, p_type>>
a_vars == <<a_pc, app, a_drawn, a_quit_key>>
vars == <<u_vars, o_vars, s_vars, e_vars, t_vars, d_vars, c_vars, p_vars, a_vars>>

\* what the operations of one part leave alone
non_u_vars == <<o_vars, s_vars, e_vars, t_vars, d_vars, c_vars, p_vars, a_vars>>
non_o_vars == <<u_vars, s_vars, e_vars, t_vars, d_vars, c_vars, p_vars, a_vars>>
non_s_vars == <<u_vars, o_vars, e_vars, t_vars, d_vars, c_vars, p_vars, a_vars>>
non_e_vars == <<u_vars, o_vars, s_vars, t_vars, d_vars, c_vars, p_vars, a_vars>>
non_t_vars == <<u_vars, o_vars, s_vars, e_vars, d_vars, c_vars, p_vars, a_vars>>
non_d_vars == <<u_vars, o_vars, s_vars, e_vars, t_vars, c_vars, p_vars, a_vars>>
non_c_vars == <<u_vars, o_vars, s_vars, e_vars, t_vars, d_vars, p_vars, a_vars>>
non_p_vars == <<u_vars, o_vars, s_vars, e_vars, t_vars, d_vars, c_vars, a_vars>>
non_a_vars == <<u_vars, o_vars, s_vars, e_vars, t_vars, d_vars, c_vars, p_vars>>
non_p_t_vars == <<u_vars, o_vars, s_vars, e_vars, d_vars, c_vars, a_vars>>

----------------------------------------------------------------------------
(* Bounds of the model *)

\* the largest total number of Type nodes in a drawn union_of input
MaxNodes == 4
\* the longest drawn union_of input
MaxLen == 3
\* the longest drawn Tuple / Union / params list in the ordering universe
MaxArgs == 2
\* the largest TypeVar id drawn
MaxVarId == 1
\* the most constraints added to one solver
MaxConstraints == 2
\* the most fresh_var calls on one solver
MaxFresh == 2
\* the deepest chain of nested environments
MaxScopes == 2
\* the most observations one trace is fed
MaxObservations == 3
\* the most Python files found under a checked directory
MaxFiles == 2
\* the most diagnostics one analysed file has
MaxDiagnostics == 2
\* the most entries list_files returns for a directory
MaxEntries == 2
\* the deepest current_dir below the root
MaxDirDepth == 1
\* the largest editor_scroll
MaxScroll == 1

----------------------------------------------------------------------------
(* enum Type *)

Leaf(tag) == [tag |-> tag, args |-> <<>>, ret |-> <<>>, id |-> 0, name |-> <<>>]
Node(tag, args) == [tag |-> tag, args |-> args, ret |-> <<>>, id |-> 0, name |-> <<>>]

TypeUnknown == Leaf("Unknown")
TypeNone == Leaf("None")
TypeAny == Leaf("Any")
TypeBool == Leaf("Bool")
TypeInt == Leaf("Int")
TypeFloat == Leaf("Float")
TypeStr == Leaf("Str")
TypeBytes == Leaf("Bytes")
TypeList(t) == Node("List", <<t>>)
TypeDict(k, v) == Node("Dict", <<k, v>>)
TypeTuple(items) == Node("Tuple", items)
TypeSet(t) == Node("Set", <<t>>)
TypeFunction(params, returns) ==
    [tag |-> "Function", args |-> params, ret |-> <<returns>>, id |-> 0, name |-> <<>>]
TypeUnion(types) == Node("Union", types)
TypeVarOf(n) == [tag |-> "Var", args |-> <<>>, ret |-> <<>>, id |-> n, name |-> <<>>]
TypeNamed(name) == [tag |-> "Named", args |-> <<>>, ret |-> <<>>, id |-> 0, name |-> name]
TypeGeneric(name, params) ==
    [tag |-> "Generic", args |-> params, ret |-> <<>>, id |-> 0, name |-> name]

\* the variants that carry no data
Primitives == {"Unknown", "None", "Any", "Bool", "Int", "Float", "Str", "Bytes"}

----------------------------------------------------------------------------
(* impl PartialEq for Type *)

RECURSIVE eq(_, _)
RECURSIVE VecEq(_, _)

\* Vec<Type> == Vec<Type>: same length and equal element by element
VecEq(a, b) ==
    /\ Len(a) = Len(b)
    /\ \A i \in 1..Len(a) : eq(a[i], b[i])

eq(a, b) ==
    IF a.tag = "List" /\ b.tag = "List" THEN eq(a.args[1], b.args[1])
    ELSE IF a.tag = "Dict" /\ b.tag = "Dict"
        THEN eq(a.args[1], b.args[1]) /\ eq(a.args[2], b.args[2])
    ELSE IF a.tag = "Tuple" /\ b.tag = "Tuple" THEN VecEq(a.args, b.args)
    ELSE IF a.tag = "Set" /\ b.tag = "Set" THEN eq(a.args[1], b.args[1])
    ELSE IF a.tag = "Function" /\ b.tag = "Function"
        THEN VecEq(a.args, b.args) /\ eq(a.ret[1], b.ret[1])
    ELSE IF a.tag = "Union" /\ b.tag = "Union" THEN VecEq(a.args, b.args)
    ELSE IF a.tag = "Var" /\ b.tag = "Var" THEN a.id = b.id
    ELSE IF a.tag = "Named" /\ b.tag = "Named" THEN a.name = b.name
    ELSE IF a.tag = "Generic" /\ b.tag = "Generic"
        THEN a.name = b.name /\ VecEq(a.args, b.args)
    ELSE a.tag = b.tag

----------------------------------------------------------------------------
(* impl Ord for Type *)

\* u32::cmp
IntCmp(x, y) == IF x < y THEN "Less" ELSE IF x > y THEN "Greater" ELSE "Equal"

\* String::cmp: byte-wise lexicographic, a proper prefix is Less
RECURSIVE StrCmp(_, _)
StrCmp(a, b) ==
    IF a = <<>> /\ b = <<>> THEN "Equal"
    ELSE IF a = <<>> THEN "Less"
    ELSE IF b = <<>> THEN "Greater"
    ELSE IF Head(a) # Head(b) THEN IntCmp(Head(a), Head(b))
    ELSE StrCmp(Tail(a), Tail(b))

\* the arms of the fallback match with Set tried before Tuple
Precedence_SetBeforeTuple ==
    << "Unknown", "None", "Any", "Bool", "Int", "Float", "Str", "Bytes", "List",
       "Dict", "Set", "Tuple", "Function", "Union", "Var", "Named" >>

\* the order of the arms of the fallback match
Precedence ==
    << "Unknown", "None", "Any", "Bool", "Int", "Float", "Str", "Bytes", "List",
       "Dict", "Tuple", "Set", "Function", "Union", "Var", "Named" >>

\* the fallback arm (a, b): the arms are tried top to bottom from arm i on
RECURSIVE FallbackCmp(_, _, _)
FallbackCmp(a, b, i) ==
    IF i > Len(Precedence) THEN "Equal"
    ELSE IF a.tag = Precedence[i] THEN "Less"
    ELSE IF b.tag = Precedence[i] THEN "Greater"
    ELSE FallbackCmp(a, b, i + 1)

RECURSIVE cmp(_, _)
RECURSIVE VecCmp(_, _)

\* Vec<Type>::cmp: lexicographic, a proper prefix is Less
VecCmp(a, b) ==
    IF a = <<>> /\ b = <<>> THEN "Equal"
    ELSE IF a = <<>> THEN "Less"
    ELSE IF b = <<>> THEN "Greater"
    ELSE LET o == cmp(Head(a), Head(b))
         IN  IF o = "Equal" THEN VecCmp(Tail(a), Tail(b)) ELSE o

\* cmp with the Dict arm comparing the key types only
cmp_DictKeysOnly(a, b) ==
    IF a.tag = b.tag /\ a.tag \in Primitives THEN "Equal"
    ELSE IF a.tag = "List" /\ b.tag = "List" THEN cmp(a.args[1], b.args[1])
    ELSE IF a.tag = "Dict" /\ b.tag = "Dict" THEN cmp(a.args[1], b.args[1])
    ELSE IF a.tag = "Tuple" /\ b.tag = "Tuple" THEN VecCmp(a.args, b.args)
    ELSE IF a.tag = "Set" /\ b.tag = "Set" THEN cmp(a.args[1], b.args[1])
    ELSE IF a.tag = "Function" /\ b.tag = "Function"
        THEN LET o == VecCmp(a.args, b.args)
             IN  IF o = "Equal" THEN cmp(a.ret[1], b.ret[1]) ELSE o
    ELSE IF a.tag = "Union" /\ b.tag = "Union" THEN VecCmp(a.args, b.args)
    ELSE IF a.tag = "Var" /\ b.tag = "Var" THEN IntCmp(a.id, b.id)
    ELSE IF a.tag = "Named" /\ b.tag = "Named" THEN StrCmp(a.name, b.name)
    ELSE IF a.tag = "Generic" /\ b.tag = "Generic"
        THEN LET o == StrCmp(a.name, b.name)
             IN  IF o = "Equal" THEN VecCmp(a.args, b.args) ELSE o
    ELSE FallbackCmp(a, b, 1)

cmp(a, b) ==
    IF a.tag = b.tag /\ a.tag \in Primitives THEN "Equal"
    ELSE IF a.tag = "List" /\ b.tag = "List" THEN cmp(a.args[1], b.args[1])
    ELSE IF a.tag = "Dict" /\ b.tag = "Dict"
        THEN LET o == cmp(a.args[1], b.args[1])
             IN  IF o = "Equal" THEN cmp(a.args[2], b.args[2]) ELSE o
    ELSE IF a.tag = "Tuple" /\ b.tag = "Tuple" THEN VecCmp(a.args, b.args)
    ELSE IF a.tag = "Set" /\ b.tag = "Set" THEN cmp(a.args[1], b.args[1])
    ELSE IF a.tag = "Function" /\ b.tag = "Function"
        THEN LET o == VecCmp(a.args, b.args)
             IN  IF o = "Equal" THEN cmp(a.ret[1], b.ret[1]) ELSE o
    ELSE IF a.tag = "Union" /\ b.tag = "Union" THEN VecCmp(a.args, b.args)
    ELSE IF a.tag = "Var" /\ b.tag = "Var" THEN IntCmp(a.id, b.id)
    ELSE IF a.tag = "Named" /\ b.tag = "Named" THEN StrCmp(a.name, b.name)
    ELSE IF a.tag = "Generic" /\ b.tag = "Generic"
        THEN LET o == StrCmp(a.name, b.name)
             IN  IF o = "Equal" THEN VecCmp(a.args, b.args) ELSE o
    ELSE FallbackCmp(a, b, 1)

----------------------------------------------------------------------------
(* Type::union_of *)

\* BTreeSet::insert on the set held as its ascending sequence: the value goes
\* before the first member it is Less than, and is dropped when a member
\* compares Equal to it
RECURSIVE BTreeSetInsert(_, _)

\* BTreeSetInsert as a Vec that is pushed to unless it already holds the value
BTreeSetInsert_PushUnlessHeld(set, ty) ==
    IF \E i \in 1..Len(set) : eq(set[i], ty) THEN set ELSE Append(set, ty)

BTreeSetInsert(set, ty) ==
    IF set = <<>> THEN <<ty>>
    ELSE LET o == cmp(ty, Head(set))
         IN  IF o = "Less" THEN <<ty>> \o set
             ELSE IF o = "Equal" THEN set
             ELSE <<Head(set)>> \o BTreeSetInsert(Tail(set), ty)

\* for nested_ty in nested_types { unique_types.insert(nested_ty) }
RECURSIVE InsertEach(_, _)
InsertEach(set, nested_types) ==
    IF nested_types = <<>> THEN set
    ELSE InsertEach(BTreeSetInsert(set, Head(nested_types)), Tail(nested_types))

\* for ty in types { match ty { Union(nested_types) => ..., _ => insert(ty) } }
RECURSIVE CollectUnique(_, _)
CollectUnique(set, types) ==
    IF types = <<>> THEN set
    ELSE LET ty == Head(types)
         IN  IF ty.tag = "Union"
             THEN CollectUnique(InsertEach(set, ty.args), Tail(types))
             ELSE CollectUnique(BTreeSetInsert(set, ty), Tail(types))

\* union_of without the return of a single collected type
union_of_NoSingle(types) ==
    IF types = <<>> THEN TypeUnknown
    ELSE TypeUnion(CollectUnique(<<>>, types))

union_of(types) ==
    IF types = <<>> THEN TypeUnknown
    ELSE LET unique_types == CollectUnique(<<>>, types)
         IN  IF Len(unique_types) = 1 THEN unique_types[1]
             ELSE TypeUnion(unique_types)

----------------------------------------------------------------------------
(* The inputs union_of is applied to *)

UnionLeaves == {TypeBool, TypeInt, TypeStr, TypeUnion(<<>>)}

RECURSIVE TypesOfSize(_)
RECURSIVE SeqsOfSize(_, _)

\* the types built from exactly n nodes: leaves, Unions and Lists of smaller types
TypesOfSize(n) ==
    IF n = 1 THEN UnionLeaves
    ELSE {TypeUnion(s) : s \in SeqsOfSize(n - 1, n - 1)}
         \cup {TypeList(t) : t \in TypesOfSize(n - 1)}

\* the sequences of at most len types that hold exactly n nodes in total
SeqsOfSize(n, len) ==
    IF n = 0 THEN {<<>>}
    ELSE IF len = 0 THEN {}
    ELSE UNION { {<<t>> \o s : t \in TypesOfSize(k), s \in SeqsOfSize(n - k, len - 1)}
                 : k \in 1..n }

UnionInputs == UNION {SeqsOfSize(n, MaxLen) : n \in 0..MaxNodes}

\* the bijections of 1..n
Shuffles(n) == {p \in [1..n -> 1..n] : \A i, j \in 1..n : p[i] = p[j] => i = j}

UnionIdle ==
    /\ u_pc = "idle"
    /\ u_types = <<>>
    /\ u_result = <<>>
    /\ u_other = <<>>
    /\ u_other_result = <<>>

----------------------------------------------------------------------------
(* The inputs cmp and eq are applied to *)

OrdInner == {TypeInt, TypeStr}
OrdNames == {<<97>>, <<97, 98>>}
OrdParams == {<<>>, <<TypeInt>>, <<TypeStr>>, <<TypeInt, TypeStr>>}

\* the sequences over S of length at most n
SeqsUpTo(S, n) == UNION {[1..k -> S] : k \in 0..n}

OrdUniverse ==
    {Leaf(tag) : tag \in Primitives}
    \cup {TypeVarOf(v) : v \in 0..MaxVarId}
    \cup {TypeNamed(nm) : nm \in OrdNames}
    \cup {TypeList(t) : t \in OrdInner}
    \cup {TypeSet(t) : t \in OrdInner}
    \cup {TypeDict(k, v) : k \in OrdInner, v \in OrdInner}
    \cup {TypeTuple(s) : s \in SeqsUpTo(OrdInner, MaxArgs)}
    \cup {TypeUnion(s) : s \in SeqsUpTo(OrdInner, MaxArgs)}
    \cup {TypeFunction(ps, r) : ps \in OrdParams, r \in OrdInner}
    \cup {TypeGeneric(nm, ps) : nm \in OrdNames, ps \in OrdParams}
    \cup { TypeList(TypeList(TypeInt)), TypeUnion(<<TypeUnion(<<TypeInt>>)>>),
           TypeTuple(<<TypeVarOf(0), TypeNamed(<<97>>)>>) }

OrdIdle ==
    /\ o_pc = "idle"
    /\ o_a = TypeUnknown
    /\ o_b = TypeUnknown
    /\ o_c = TypeUnknown
    /\ o_cmp = <<>>

----------------------------------------------------------------------------
(* struct TypeEnv *)

\* The names and the types bound in the drawn environments
EnvNames == {"x", "y"}
EnvTypes == {TypeInt, TypeStr}

\* HashMap<String, Type>: a function from the bound names to their types
NoBindings == [n \in {} |-> TypeUnknown]

\* HashMap::get: <<>> for None, <<ty>> for Some(ty)
Get(bindings, name) ==
    IF name \in DOMAIN bindings THEN <<bindings[name]>> ELSE <<>>

\* HashMap::insert, the map it leaves
Insert(bindings, name, ty) ==
    [n \in DOMAIN bindings \cup {name} |-> IF n = name THEN ty ELSE bindings[n]]

\* A TypeEnv is the sequence of the `bindings` along its `parent` chain, the
\* outermost ancestor's first and its own last: the parent of env is env
\* without its last element.

\* TypeEnv::new(): Self { bindings: HashMap::new(), parent: None }
TypeEnvNew == <<NoBindings>>

\* TypeEnv::nested(parent): no bindings, parent: Some(Box::new(parent))
nested(env) == Append(env, NoBindings)

\* TypeEnv::parent(&self): self.parent.as_deref()
parent(env) ==
    IF Len(env) > 1 THEN <<SubSeq(env, 1, Len(env) - 1)>> ELSE <<>>

RECURSIVE lookup(_, _)

\* lookup asking the parent chain before the environment's own bindings
lookup_OutermostFirst(env, name) ==
    LET up == IF parent(env) # <<>> THEN lookup(parent(env)[1], name) ELSE <<>>
    IN  IF up # <<>> THEN up ELSE Get(env[Len(env)], name)

\* TypeEnv::lookup: self.bindings.get(name)
\*     .or_else(|| self.parent.as_ref().and_then(|parent| parent.lookup(name)))
lookup(env, name) ==
    LET own == Get(env[Len(env)], name)
    IN  IF own # <<>> THEN own
        ELSE IF parent(env) # <<>> THEN lookup(parent(env)[1], name)
        ELSE <<>>

\* bind writing over the nearest ancestor's binding of the name when the
\* environment itself does not bind it
bind_IntoAncestor(env, name, ty) ==
    LET binders == {i \in 1..Len(env) : name \in DOMAIN env[i]}
        at == IF binders = {} THEN Len(env)
              ELSE CHOOSE i \in binders : \A j \in binders : j <= i
    IN  [env |-> [env EXCEPT ![at] = Insert(@, name, ty)],
         returned |-> Get(env[Len(env)], name)]

\* bind returning what lookup found before the insertion
bind_ReturnsLookup(env, name, ty) ==
    [env |-> [env EXCEPT ![Len(env)] = Insert(@, name, ty)],
     returned |-> lookup(env, name)]

\* bind replacing the environment's bindings by the new one alone
bind_DropsOthers(env, name, ty) ==
    [env |-> [env EXCEPT ![Len(env)] = Insert(NoBindings, name, ty)],
     returned |-> Get(env[Len(env)], name)]

\* TypeEnv::bind: self.bindings.insert(name, ty); `env` is the environment
\* after the call and `returned` the Option<Type> that insert returned
bind(env, name, ty) ==
    [env |-> [env EXCEPT ![Len(env)] = Insert(@, name, ty)],
     returned |-> Get(env[Len(env)], name)]

\* the record of a call: `before` is the environment it was made on
EnvCall(op, name, ty, returned, before) ==
    [op |-> op, name |-> name, ty |-> ty, returned |-> returned, before |-> before]

NoEnvCall == EnvCall("none", "", TypeUnknown, <<>>, <<>>)

EnvIdle ==
    /\ e_pc = "idle"
    /\ e_env = TypeEnvNew
    /\ e_nested_from = <<>>
    /\ e_last = NoEnvCall

----------------------------------------------------------------------------
(* struct TypeTrace (src/src/tracer/mod.rs) *)

\* The variable names and the types the drawn observations report
TraceNames == {"x", "y"}
TraceTypes == {TypeInt, TypeStr, TypeList(TypeInt)}

\* TypeTrace::default(): no variable has an entry
NoVariables == [n \in {} |-> <<>>]

\* TypeTrace::default(): no function has an entry
NoFunctions == [n \in {} |-> [args |-> <<>>, returns |-> <<>>]]

\* add_variable storing the observation in place of the earlier ones
add_variable_Overwrite(variables, name, type_info) ==
    [n \in DOMAIN variables \cup {name} |->
        IF n = name THEN <<type_info>> ELSE variables[n]]

\* TypeTrace::add_variable, the `variables` map it leaves:
\* self.variables.entry(name).or_default().push(type_info)
add_variable(variables, name, type_info) ==
    [n \in DOMAIN variables \cup {name} |->
        IF n = name
        THEN Append(IF n \in DOMAIN variables THEN variables[n] ELSE <<>>, type_info)
        ELSE variables[n]]

\* TypeTrace::add_function_call, the `functions` map it leaves:
\* entry.0.push(args); entry.1.push(return_type)
add_function_call(functions, name, args, return_type) ==
    LET entry == IF name \in DOMAIN functions THEN functions[name]
                 ELSE [args |-> <<>>, returns |-> <<>>]
    IN  [n \in DOMAIN functions \cup {name} |->
            IF n = name
            THEN [args |-> Append(entry.args, args),
                  returns |-> Append(entry.returns, return_type)]
            ELSE functions[n]]

RECURSIVE UniqueFrom(_, _, _, _)

\* the loop with `seen` ignored: every observation is pushed
UniqueFrom_PushAll(types, i, seen, unique_types) ==
    IF i > Len(types) THEN unique_types
    ELSE UniqueFrom(types, i + 1, seen, Append(unique_types, types[i]))

\* the loop of get_variable_types from the i-th observation on:
\* for t in types { if seen.insert(t) { unique_types.push(t) } }
UniqueFrom(types, i, seen, unique_types) ==
    IF i > Len(types) THEN unique_types
    ELSE IF \E s \in seen : eq(s, types[i])
        THEN UniqueFrom(types, i + 1, seen, unique_types)
        ELSE UniqueFrom(types, i + 1, seen \cup {types[i]},
                        Append(unique_types, types[i]))

\* TypeTrace::get_variable_types
get_variable_types(variables, name) ==
    IF name \in DOMAIN variables
    THEN UniqueFrom(variables[name], 1, {}, <<>>)
    ELSE <<>>

TraceIdle ==
    /\ t_pc = "idle"
    /\ t_variables = NoVariables
    /\ t_functions = NoFunctions
    /\ t_observed = <<>>
    /\ t_query = <<>>

----------------------------------------------------------------------------
(* impl fmt::Display for Type; a String is the sequence of its bytes *)

\* what write!(f, "...") writes for the variants without fields
PrimitiveText ==
    [ Unknown |-> <<85, 110, 107, 110, 111, 119, 110>>,            \* "Unknown"
      None    |-> <<78, 111, 110, 101>>,                     \* "None"
      Any     |-> <<65, 110, 121>>,                          \* "Any"
      Bool    |-> <<98, 111, 111, 108>>,                    \* "bool"
      Int     |-> <<105, 110, 116>>,                        \* "int"
      Float   |-> <<102, 108, 111, 97, 116>>,               \* "float"
      Str     |-> <<115, 116, 114>>,                        \* "str"
      Bytes   |-> <<98, 121, 116, 101, 115>> ]              \* "bytes"

\* u32's Display: the decimal digits, no leading zero
RECURSIVE DecimalText(_)
DecimalText(n) ==
    IF n < 10 THEN <<48 + n>>
    ELSE DecimalText(n \div 10) \o <<48 + (n % 10)>>

\* impl fmt::Display for TypeVar: write!(f, "T{}", self.0)
TypeVarText(id) == <<84>> \o DecimalText(id)

RECURSIVE Join(_, _)

\* join writing the separator after every item, the last one too
Join_Trailing(strs, sep) ==
    IF strs = <<>> THEN <<>>
    ELSE Head(strs) \o sep \o Join(Tail(strs), sep)

\* [String]::join(sep)
Join(strs, sep) ==
    IF strs = <<>> THEN <<>>
    ELSE IF Len(strs) = 1 THEN strs[1]
    ELSE Head(strs) \o sep \o Join(Tail(strs), sep)

\* Type::fmt, as the String that to_string() returns
RECURSIVE fmt(_)
fmt(t) ==
    LET each(items) == [i \in 1..Len(items) |-> fmt(items[i])]
        comma == <<44, 32>>                                          \* ", "
    IN  IF t.tag \in Primitives THEN PrimitiveText[t.tag]
        ELSE IF t.tag = "List"                                       \* "List[{}]"
            THEN <<76, 105, 115, 116, 91>> \o fmt(t.args[1]) \o <<93>>
        ELSE IF t.tag = "Dict"                                   \* "Dict[{}, {}]"
            THEN <<68, 105, 99, 116, 91>> \o fmt(t.args[1]) \o comma
                 \o fmt(t.args[2]) \o <<93>>
        ELSE IF t.tag = "Tuple"                                     \* "Tuple[{}]"
            THEN <<84, 117, 112, 108, 101, 91>> \o Join(each(t.args), comma) \o <<93>>
        ELSE IF t.tag = "Set"                                         \* "Set[{}]"
            THEN <<83, 101, 116, 91>> \o fmt(t.args[1]) \o <<93>>
        ELSE IF t.tag = "Function"                        \* "Callable[[{}], {}]"
            THEN <<67, 97, 108, 108, 97, 98, 108, 101, 91, 91>>
                 \o Join(each(t.args), comma) \o <<93, 44, 32>> \o fmt(t.ret[1])
                 \o <<93>>
        ELSE IF t.tag = "Union"                             \* joined with " | "
            THEN Join(each(t.args), <<32, 124, 32>>)
        ELSE IF t.tag = "Var" THEN TypeVarText(t.id)
        ELSE IF t.tag = "Named" THEN t.name
        ELSE t.name \o <<91>> \o Join(each(t.args), comma) \o <<93>>   \* "{}[{}]"

\* The types Display is applied to
DisplayUniverse ==
    OrdUniverse
    \cup { TypeVarOf(12), TypeVarOf(305),
           TypeFunction(<<TypeInt, TypeStr>>, TypeBool),
           TypeList(TypeDict(TypeStr, TypeList(TypeInt))),
           TypeUnion(<<TypeInt, TypeList(TypeStr), TypeNone>>),
           TypeTuple(<<TypeFloat, TypeBytes, TypeAny>>),
           TypeGeneric(<<97, 98>>, <<TypeVarOf(0), TypeSet(TypeInt)>>),
           TypeFunction(<<TypeFunction(<<>>, TypeInt)>>, TypeUnion(<<TypeInt, TypeStr>>)) }

DisplayIdle ==
    /\ d_pc = "idle"
    /\ d_type = TypeUnknown
    /\ d_text = <<>>

----------------------------------------------------------------------------
(* main: Commands::Check (src/src/main.rs) *)

\* Analyzer::analyze_python_file(path): Ok(AnalysisResult) with so many
\* diagnostics, or Err
AnalysisOk(n) == [ok |-> TRUE, diagnostics |-> n]
AnalysisErr == [ok |-> FALSE, diagnostics |-> 0]

AnalysisOutcomes == {AnalysisErr} \cup {AnalysisOk(n) : n \in 0..MaxDiagnostics}

PathKinds == {"missing", "py_file", "other_file", "dir"}

\* "text" is the default; any other string takes the `_` arm of the match
Formats == {"text", "json", "yaml"}

\* the files analysed for each kind of path: the file itself, or what
\* find_python_files yields for a directory
FilesOf(kind) ==
    IF kind = "py_file" THEN [1..1 -> AnalysisOutcomes]
    ELSE IF kind = "dir" THEN UNION {[1..n -> AnalysisOutcomes] : n \in 0..MaxFiles}
    ELSE {<<>>}

\* results: the AnalysisResults pushed, one for every analysis that returned Ok
RECURSIVE results(_)
results(files) ==
    IF files = <<>> THEN <<>>
    ELSE IF Head(files).ok THEN <<Head(files)>> \o results(Tail(files))
    ELSE results(Tail(files))

\* for r in &results { ... total_diagnostics += r.diagnostics.len() }
RECURSIVE CountDiagnostics(_)
CountDiagnostics(rs) ==
    IF rs = <<>> THEN 0
    ELSE Head(rs).diagnostics + CountDiagnostics(Tail(rs))

\* total_diagnostics when the output has been written: the "json" arm prints
\* the results and leaves it 0, the other arm adds up the diagnostics
total_diagnostics(files, format) ==
    IF format = "json" THEN 0
    ELSE CountDiagnostics(results(files))

\* the exit status of `omnitype check`: Ok(()) from main is 0,
\* std::process::exit(1) is 1
ExitStatus(kind, files, format) ==
    IF kind = "missing" THEN 0
    ELSE IF total_diagnostics(files, format) > 0 THEN 1
    ELSE 0

CheckIdle ==
    /\ c_pc = "idle"
    /\ c_path = "missing"
    /\ c_files = <<>>
    /\ c_format = "text"
    /\ c_exit = <<>>

----------------------------------------------------------------------------
(* RuntimeTracer: the type names of traced values (src/src/tracer/mod.rs) *)

\* A traced Python value is held as the Type that matches its structure: an
\* empty list, dict or set as List(Any), Dict(Any, Any), Set(Any), an empty
\* tuple as Tuple([]), an instance of a class as Named(class name).

\* str.join of the Python tracer and of Rust give the same string
RECURSIVE get_type_name(_)

\* TypeTracer.get_type_name (Python): the name emitted for a traced value
get_type_name(value) ==
    LET each(items) == [i \in 1..Len(items) |-> get_type_name(items[i])]
    IN  IF value.tag = "None" THEN <<78, 111, 110, 101>>                      \* "None"
        ELSE IF value.tag = "Bool" THEN <<98, 111, 111, 108>>                \* "bool"
        ELSE IF value.tag = "Int" THEN <<105, 110, 116>>                      \* "int"
        ELSE IF value.tag = "Float" THEN <<102, 108, 111, 97, 116>>          \* "float"
        ELSE IF value.tag = "Str" THEN <<115, 116, 114>>                      \* "str"
        ELSE IF value.tag = "Bytes" THEN <<98, 121, 116, 101, 115>>          \* "bytes"
        ELSE IF value.tag = "Any" THEN <<65, 110, 121>>                        \* "Any"
        ELSE IF value.tag = "List"                               \* f"List[{inner_type}]"
            THEN <<76, 105, 115, 116, 91>> \o get_type_name(value.args[1]) \o <<93>>
        ELSE IF value.tag = "Dict"                    \* f"Dict[{key_type}, {val_type}]"
            THEN <<68, 105, 99, 116, 91>> \o get_type_name(value.args[1]) \o <<44, 32>>
                 \o get_type_name(value.args[2]) \o <<93>>
        ELSE IF value.tag = "Tuple"
            THEN IF value.args = <<>>
                 THEN <<84, 117, 112, 108, 101, 91, 40, 41, 93>>       \* "Tuple[()]"
                 ELSE <<84, 117, 112, 108, 101, 91>>                    \* "Tuple[" ', '.join "]"
                      \o Join(each(value.args), <<44, 32>>) \o <<93>>
        ELSE IF value.tag = "Set"                                 \* f"Set[{inner_type}]"
            THEN <<83, 101, 116, 91>> \o get_type_name(value.args[1]) \o <<93>>
        ELSE value.name                                         \* type(value).__name__

\* str::starts_with
StartsWith(s, prefix) ==
    Len(s) >= Len(prefix) /\ SubSeq(s, 1, Len(prefix)) = prefix

\* str::split(sep).collect::<Vec<&str>>(): cut at every occurrence of sep,
\* found left to right
RECURSIVE Split(_, _)
Split(s, sep) ==
    LET hits == {i \in 1..(Len(s) - Len(sep) + 1) : SubSeq(s, i, i + Len(sep) - 1) = sep}
    IN  IF hits = {} THEN <<s>>
        ELSE LET i == CHOOSE h \in hits : \A k \in hits : h <= k
             IN  <<SubSeq(s, 1, i - 1)>> \o Split(SubSeq(s, i + Len(sep), Len(s)), sep)

\* str::is_char_boundary(index) on the UTF-8 bytes of s: the start, the end,
\* or a byte that does not continue a character (not 0x80..=0xBF)
IsCharBoundary(s, index) ==
    \/ index = 0
    \/ index = Len(s)
    \/ index < Len(s) /\ (s[index + 1] < 128 \/ s[index + 1] >= 192)

\* &s[n..s.len() - 1] panics: the range is inverted or an end of it is
\* inside a character
SlicePanics(s, n) ==
    \/ n > Len(s) - 1
    \/ ~IsCharBoundary(s, n)
    \/ ~IsCharBoundary(s, Len(s) - 1)

\* what a call that panics is held as; a panic in a recursive call unwinds
\* through every caller
SlicePanic == Leaf("panic")

\* RuntimeTracer::convert_python_type_to_our_type
RECURSIVE convert_python_type_to_our_type(_)
convert_python_type_to_our_type(type_str) ==
    LET s == type_str
        inner(n) == SubSeq(s, n + 1, Len(s) - 1)               \* &s[n..s.len() - 1]
        each(parts) == [i \in 1..Len(parts) |-> convert_python_type_to_our_type(parts[i])]
        unwound(types, built) ==
            IF \E i \in 1..Len(types) : types[i] = SlicePanic THEN SlicePanic ELSE built
    IN  IF s = <<78, 111, 110, 101>> THEN TypeNone
        ELSE IF s = <<98, 111, 111, 108>> THEN TypeBool
        ELSE IF s = <<105, 110, 116>> THEN TypeInt
        ELSE IF s = <<102, 108, 111, 97, 116>> THEN TypeFloat
        ELSE IF s = <<115, 116, 114>> THEN TypeStr
        ELSE IF s = <<98, 121, 116, 101, 115>> THEN TypeBytes
        ELSE IF StartsWith(s, <<76, 105, 115, 116, 91>>)
            THEN IF SlicePanics(s, 5) THEN SlicePanic
                 ELSE LET of == each(<<inner(5)>>)
                      IN  unwound(of, TypeList(of[1]))
        ELSE IF StartsWith(s, <<68, 105, 99, 116, 91>>)
            THEN IF SlicePanics(s, 5) THEN SlicePanic
                 ELSE LET parts == Split(inner(5), <<44, 32>>)
                      IN  IF Len(parts) = 2
                          THEN LET of == each(parts)
                               IN  unwound(of, TypeDict(of[1], of[2]))
                          ELSE TypeDict(TypeAny, TypeAny)
        ELSE IF StartsWith(s, <<84, 117, 112, 108, 101, 91>>)
            THEN IF SlicePanics(s, 6) THEN SlicePanic
                 ELSE IF inner(6) = <<40, 41>> THEN TypeTuple(<<>>)
                 ELSE LET of == each(Split(inner(6), <<44, 32>>))
                      IN  unwound(of, TypeTuple(of))
        ELSE IF StartsWith(s, <<83, 101, 116, 91>>)
            THEN IF SlicePanics(s, 4) THEN SlicePanic
                 ELSE LET of == each(<<inner(4)>>)
                      IN  unwound(of, TypeSet(of[1]))
        ELSE IF s = <<65, 110, 121>> THEN TypeAny
        ELSE TypeNamed(s)

\* The traced values whose names are converted
PyLeaves ==
    { TypeNone, TypeBool, TypeInt, TypeFloat, TypeStr, TypeBytes,
      TypeNamed(<<70, 111, 111>>),                                 \* class Foo
      TypeNamed(<<195, 137>>) }                                    \* class É

\* the values held in the drawn containers
PyInner == OrdInner \cup {TypeNamed(<<195, 137>>)}

\* containers of plain values, and the empty containers
PyFlat ==
    PyLeaves
    \cup {TypeList(x) : x \in PyInner \cup {TypeAny}}
    \cup {TypeSet(x) : x \in PyInner \cup {TypeAny}}
    \cup {TypeDict(k, v) : k \in PyInner, v \in PyInner}
    \cup {TypeDict(TypeAny, TypeAny)}
    \cup {TypeTuple(items) : items \in SeqsUpTo(PyInner, MaxArgs)}

\* containers of containers
PyNested ==
    {TypeList(x) : x \in PyFlat}
    \cup {TypeDict(k, v) : k \in OrdInner, v \in PyFlat}
    \cup {TypeTuple(<<a, b>>) : a \in PyFlat, b \in OrdInner}

PyValues == PyFlat \cup PyNested

ConvertIdle ==
    /\ p_pc = "idle"
    /\ p_shape = TypeUnknown
    /\ p_name = <<>>
    /\ p_type = <<>>

----------------------------------------------------------------------------
(* struct App (src/src/ui/mod.rs) *)

\* page_size in the PageUp and PageDown arms
PageSize == 10

\* App.tabs; selected_tab counts from 0
tabs == <<"Files", "Types", "Errors", "Logs", "Editor">>

\* usize::saturating_sub
SaturatingSub(a, b) == IF a > b THEN a - b ELSE 0

\* editor_scroll is a u16
U16Modulus == 65536

\* u16::saturating_add
SaturatingAddU16(a, b) == IF a + b < U16Modulus THEN a + b ELSE U16Modulus - 1

Min(a, b) == IF a < b THEN a ELSE b

\* An entry of a directory is held as its kind:
\*   "dir"      a directory
\*   "dirlink"  a symlink to a directory
\*   "py"       a file (or a symlink to one) named *.py
\*   "other"    another file (or a symlink to one)
\*   "neither"  a dangling symlink, a named pipe, a socket, a device
EntryKinds == {"dir", "dirlink", "py", "other", "neither"}

\* Path::is_dir() and Path::is_file(), which follow symlinks
IsDir(kind) == kind \in {"dir", "dirlink"}
IsFile(kind) == kind \in {"py", "other"}

\* what list_files can return: the entries with file_type().is_dir() first;
\* file_type() does not follow a symlink, so only "dir" is sorted first
Listings ==
    {l \in UNION {[1..n -> EntryKinds] : n \in 0..MaxEntries} :
        \A i, j \in 1..Len(l) : (i < j /\ l[j] = "dir") => l[i] = "dir"}

\* What the world answers during one handle_events call:
\*   listing   list_files(&self.current_dir): <<>> for Err, <<files>> for Ok
\*   open_ok   fs::read_to_string(path) is Ok
\*   analysis  Analyzer::analyze_python_file(path)
\*   is_file   PathBuf::from(&d.path).is_file() for the selected diagnostic
\*   line      d.line of the selected diagnostic, a usize
Io(listing, open_ok, analysis, is_file, line) ==
    [listing |-> listing, open_ok |-> open_ok, analysis |-> analysis,
     is_file |-> is_file, line |-> line]

ListingIo ==
    {Io(l, TRUE, AnalysisErr, TRUE, 0) : l \in {<<>>} \cup {<<f>> : f \in Listings}}

OpenIo ==
    {Io(<<>>, o, a, TRUE, 0) : o \in BOOLEAN, a \in AnalysisOutcomes}

DiagnosticIo ==
    {Io(<<>>, o, AnalysisErr, f, n) : o \in BOOLEAN, f \in BOOLEAN, n \in 0..MaxScroll}

\* the key presses told apart by handle_events; "none" is a poll without a
\* key press, "other" any key without an arm
Keys ==
    { "q", "r", "Right", "l", "Left", "h", "Down", "j", "Up", "k", "Home", "End",
      "PageUp", "PageDown", "Enter", "Space", "a", "Backspace", "Backslash",
      "other", "none" }

\* App::new() in a directory at that depth below the root with that listing
\* (<<>> when list_files failed: unwrap_or_default).  current_dir is held as
\* its depth; every PathBuf of files is dir.join(name) for the directory the
\* list was read from, held once as files_dir, the depth of that directory.
AppNew(depth, listing) ==
    LET files == IF listing = <<>> THEN <<>> ELSE listing[1]
    IN  [ should_quit |-> FALSE,
          selected_tab |-> 0,
          current_dir |-> depth,
          files |-> files,
          files_dir |-> depth,
          file_list_state |-> IF files # <<>> THEN <<0>> ELSE <<>>,
          file_content |-> FALSE,
          analysis_result |-> <<>>,
          errors |-> 0,
          errors_state |-> <<>>,
          editor_scroll |-> 0,
          logs |-> "Loading workspace..." ]

\* self.logs.push(message): the log is held as its last line
Log(a, message) == [a EXCEPT !.logs = message]

\* App::refresh_files: self.files = list_files(&self.current_dir)?
refresh_files(a, io) ==
    IF io.listing = <<>> THEN [ok |-> FALSE, app |-> a]
    ELSE [ok |-> TRUE, app |-> [a EXCEPT !.files = io.listing[1],
                                         !.files_dir = a.current_dir]]

\* App::open_file: self.file_content = Some(fs::read_to_string(path)?)
open_file(a, io) ==
    IF io.open_ok THEN [ok |-> TRUE, app |-> [a EXCEPT !.file_content = TRUE]]
    ELSE [ok |-> FALSE, app |-> a]

\* App::run_analysis
run_analysis(a, io) ==
    IF io.analysis.ok
    THEN [ok |-> TRUE,
          app |-> [a EXCEPT !.analysis_result = <<io.analysis.diagnostics>>,
                            !.errors = io.analysis.diagnostics,
                            !.errors_state =
                                IF io.analysis.diagnostics > 0 /\ a.errors_state = <<>>
                                THEN <<0>> ELSE @]]
    ELSE [ok |-> FALSE, app |-> a]

\* the content pane App::draw renders for a selected_tab
DrawnPane(selected_tab) ==
    IF selected_tab = 0 THEN "files"              \* draw_files_tab
    ELSE IF selected_tab = 1 THEN "editor"        \* draw_editor_tab
    ELSE IF selected_tab = 2 THEN "types"         \* draw_types_tab
    ELSE IF selected_tab = 3 THEN "errors"        \* draw_errors_tab
    ELSE IF selected_tab = 4 THEN "logs"          \* draw_logs_tab
    ELSE "nothing"

\* the pane whose keys the guarded arms of handle_events serve for a
\* selected_tab: file navigation, error navigation, editor scrolling
KeysPane(selected_tab) ==
    IF selected_tab = 0 THEN "files"
    ELSE IF selected_tab = 3 THEN "errors"
    ELSE IF selected_tab = 4 THEN "editor"
    ELSE "nothing"

\* self.file_list_state.select(Some(i))
SelectFile(a, i) == [a EXCEPT !.file_list_state = <<i>>]

\* KeyCode::Down | KeyCode::Char('j') if self.selected_tab == 0
FilesDown(a) ==
    IF a.file_list_state # <<>>
    THEN IF a.file_list_state[1] < SaturatingSub(Len(a.files), 1)
         THEN SelectFile(a, a.file_list_state[1] + 1)
         ELSE a
    ELSE IF a.files # <<>> THEN SelectFile(a, 0) ELSE a

\* KeyCode::Up | KeyCode::Char('k') if self.selected_tab == 0
FilesUp(a) ==
    IF a.file_list_state # <<>>
    THEN IF a.file_list_state[1] > 0
         THEN SelectFile(a, a.file_list_state[1] - 1)
         ELSE a
    ELSE IF a.files # <<>> THEN SelectFile(a, 0) ELSE a

\* KeyCode::Home if self.selected_tab == 0
FilesHome(a) == IF a.files # <<>> THEN SelectFile(a, 0) ELSE a

\* KeyCode::End if self.selected_tab == 0
FilesEnd(a) == IF a.files # <<>> THEN SelectFile(a, Len(a.files) - 1) ELSE a

\* KeyCode::PageUp if self.selected_tab == 0
FilesPageUp(a) ==
    IF a.file_list_state # <<>>
    THEN SelectFile(a, SaturatingSub(a.file_list_state[1], PageSize))
    ELSE a

\* KeyCode::PageDown if self.selected_tab == 0
FilesPageDown(a) ==
    IF a.file_list_state # <<>>
    THEN SelectFile(a, Min(a.file_list_state[1] + PageSize,
                           SaturatingSub(Len(a.files), 1)))
    ELSE a

\* self.files.get(selected) for the selected index: <<>> for None
SelectedEntry(a) ==
    IF a.file_list_state # <<>> /\ a.file_list_state[1] < Len(a.files)
    THEN <<a.files[a.file_list_state[1] + 1]>>
    ELSE <<>>

\* the answers of the world that the arm taken for a key asks for
IoFor(a, key) ==
    IF key = "r" \/ (key \in {"Backspace", "Backslash"} /\ a.current_dir > 0)
        THEN ListingIo
    ELSE IF key \in {"Enter", "Space"} /\ a.selected_tab = 0 /\ SelectedEntry(a) # <<>>
            /\ (IsFile(SelectedEntry(a)[1]) \/ IsDir(SelectedEntry(a)[1]))
        THEN IF SelectedEntry(a)[1] = "py" THEN OpenIo
             ELSE IF IsFile(SelectedEntry(a)[1])
                 THEN {io \in OpenIo : io.analysis = AnalysisErr}
             ELSE ListingIo
    ELSE IF key = "Enter" /\ a.selected_tab = 3 THEN DiagnosticIo
    ELSE IF key = "a" /\ SelectedEntry(a) # <<>> /\ SelectedEntry(a)[1] = "py"
        THEN {io \in OpenIo : io.open_ok}
    ELSE {Io(<<>>, TRUE, AnalysisErr, TRUE, 0)}

\* KeyCode::Enter | KeyCode::Char(' ') if self.selected_tab == 0
FilesEnter(a, io) ==
    IF SelectedEntry(a) = <<>> THEN a
    ELSE IF IsFile(SelectedEntry(a)[1])                        \* path_buf.is_file()
    THEN LET opened == open_file(a, io)
         IN  IF opened.ok
             THEN LET shown == Log([opened.app EXCEPT !.selected_tab = 4],
                                   "Opened file")
                  IN  IF SelectedEntry(a)[1] = "py"
                      THEN LET analysed == run_analysis(shown, io)
                           IN  IF analysed.ok
                               THEN Log(analysed.app, "Analysis complete")
                               ELSE Log(analysed.app, "Analysis failed")
                      ELSE shown
             ELSE Log(opened.app, "Failed to open file")
    ELSE IF IsDir(SelectedEntry(a)[1])                         \* path_buf.is_dir()
    THEN LET entered == [a EXCEPT !.current_dir = a.files_dir + 1]   \* = path_buf
             listed == refresh_files(entered, io)
         IN  IF listed.ok
             THEN Log(SelectFile(listed.app, 0), "Entered directory")
             ELSE Log(listed.app, "Failed to enter directory")
    ELSE a

\* KeyCode::Up if self.selected_tab == 3
ErrorsUp(a) ==
    IF a.errors_state # <<>>
    THEN IF a.errors_state[1] > 0
         THEN [a EXCEPT !.errors_state = <<a.errors_state[1] - 1>>]
         ELSE a
    ELSE IF a.errors > 0 THEN [a EXCEPT !.errors_state = <<0>>] ELSE a

\* KeyCode::Down if self.selected_tab == 3
ErrorsDown(a) ==
    IF a.errors_state # <<>>
    THEN IF a.errors_state[1] + 1 < a.errors
         THEN [a EXCEPT !.errors_state = <<a.errors_state[1] + 1>>]
         ELSE a
    ELSE IF a.errors > 0 THEN [a EXCEPT !.errors_state = <<0>>] ELSE a

\* KeyCode::Enter if self.selected_tab == 3
ErrorsEnter(a, io) ==
    IF a.errors_state # <<>> /\ a.errors_state[1] < a.errors /\ io.is_file
    THEN LET opened == open_file(a, io)
         IN  IF opened.ok
             THEN Log([opened.app EXCEPT !.editor_scroll = io.line % U16Modulus,   \* as u16
                                         !.selected_tab = 4],
                      "Opened from error")
             ELSE Log(opened.app, "Failed to open file from error")
    ELSE a

\* KeyCode::Char('a')
AnalyzeSelected(a, io) ==
    IF SelectedEntry(a) = <<>> THEN a
    ELSE IF SelectedEntry(a)[1] = "py"
    THEN LET analysed == run_analysis(a, io)
         IN  IF analysed.ok
             THEN [Log(analysed.app, "Analyzed") EXCEPT !.selected_tab = 1]
             ELSE Log(analysed.app, "Analysis failed")
    ELSE Log(a, "Select a Python (.py) file to analyze")

\* KeyCode::Backspace | KeyCode::Char('\\')
ParentDirectory(a, io) ==
    IF a.current_dir > 0                                  \* self.current_dir.parent()
    THEN LET moved == [a EXCEPT !.current_dir = @ - 1]
             listed == refresh_files(moved, io)
         IN  IF listed.ok
             THEN Log(SelectFile(listed.app, 0), "Moved to parent directory")
             ELSE Log(listed.app, "Failed to go to parent directory")
    ELSE Log(a, "Already at root directory")

\* the match on key.code in handle_events, its arms tried in order; the App
\* it leaves
HandleKey(a, key, io) ==
    IF key = "q" THEN a                                            \* return Ok(true)
    ELSE IF key = "r"
        THEN IF refresh_files(a, io).ok
             THEN Log(refresh_files(a, io).app, "File list refreshed")
             ELSE Log(a, "Failed to refresh files")
    ELSE IF key \in {"Right", "l"}
        THEN [a EXCEPT !.selected_tab = (a.selected_tab + 1) % Len(tabs)]
    ELSE IF key \in {"Left", "h"}
        THEN [a EXCEPT !.selected_tab =
                  IF a.selected_tab > 0 THEN a.selected_tab - 1 ELSE Len(tabs) - 1]
    ELSE IF key \in {"Down", "j"} /\ a.selected_tab = 0 THEN FilesDown(a)
    ELSE IF key \in {"Up", "k"} /\ a.selected_tab = 0 THEN FilesUp(a)
    ELSE IF key = "Home" /\ a.selected_tab = 0 THEN FilesHome(a)
    ELSE IF key = "End" /\ a.selected_tab = 0 THEN FilesEnd(a)
    ELSE IF key = "PageUp" /\ a.selected_tab = 0 THEN FilesPageUp(a)
    ELSE IF key = "PageDown" /\ a.selected_tab = 0 THEN FilesPageDown(a)
    ELSE IF key \in {"Enter", "Space"} /\ a.selected_tab = 0 THEN FilesEnter(a, io)
    ELSE IF key = "Up" /\ a.selected_tab = 3 THEN ErrorsUp(a)
    ELSE IF key = "Down" /\ a.selected_tab = 3 THEN ErrorsDown(a)
    ELSE IF key = "Enter" /\ a.selected_tab = 3 THEN ErrorsEnter(a, io)
    ELSE IF key = "Up" /\ a.selected_tab = 4
        THEN [a EXCEPT !.editor_scroll = SaturatingSub(@, 1)]
    ELSE IF key = "Down" /\ a.selected_tab = 4
        THEN [a EXCEPT !.editor_scroll = SaturatingAddU16(@, 1)]
    ELSE IF key = "a" THEN AnalyzeSelected(a, io)
    ELSE IF key \in {"Backspace", "Backslash"} THEN ParentDirectory(a, io)
    ELSE a

\* every outcome of one handle_events call that reads a key event: the App
\* it leaves and whether the key was 'q', over the keys and the answers of
\* the world
Handled(a) ==
    {[app |-> HandleKey(a, key_io[1], key_io[2]), quit_key |-> key_io[1] = "q"] :
        key_io \in UNION {{<<key, io>> : io \in IoFor(a, key)} : key \in Keys}}

\* the model's bounds on the counters a handle_events call would pass
WithinBounds(a) ==
    /\ a.current_dir <= MaxDirDepth
    /\ a.editor_scroll <= MaxScroll

UiIdle ==
    /\ a_pc = "idle"
    /\ app = AppNew(0, <<>>)
    /\ a_drawn = ""
    /\ a_quit_key = FALSE

----------------------------------------------------------------------------
(* ConstraintSolver *)

\* a u32 held as two 16-bit limbs: its value is hi * LimbModulus + lo
LimbModulus == 65536
U32(hi, lo) == [hi |-> hi, lo |-> lo]
U32Zero == U32(0, 0)
U32Max == U32(LimbModulus - 1, LimbModulus - 1)

\* x < y on u32
U32Less(x, y) == x.hi < y.hi \/ (x.hi = y.hi /\ x.lo < y.lo)

\* x + 1 on u32 without the overflow check: u32::MAX + 1 is 0
WrappingAdd1(x) ==
    IF x.lo + 1 < LimbModulus THEN U32(x.hi, x.lo + 1)
    ELSE IF x.hi + 1 < LimbModulus THEN U32(x.hi + 1, 0)
    ELSE U32Zero

\* `+=` on a u32 that overflows panics when the build has overflow checks
\* (the dev profile) and wraps when it has none (the release profile)
OverflowBuilds == {"checked", "wrapping"}

\* enum Constraint
Equal(t1, t2) == [kind |-> "Equal", var |-> 0, t1 |-> t1, t2 |-> t2]
Subtype(t1, t2) == [kind |-> "Subtype", var |-> 0, t1 |-> t1, t2 |-> t2]
Occurs(v, ty) == [kind |-> "Occurs", var |-> v, t1 |-> ty, t2 |-> ty]

\* HashMap::new()
EmptyMap == [v \in {} |-> TypeUnknown]

\* Result<()> of a rule, with the substitution the rule leaves behind and the
\* name of the rule that ran
Ok(subst) == [ok |-> TRUE, error |-> "", substitution |-> subst, rule |-> ""]
Err(subst, error) == [ok |-> FALSE, error |-> error, substitution |-> subst, rule |-> ""]

\* unify with no arm for Function: a Function falls to the mismatch error
unify_NoFunctionArm(subst, t1, t2) ==
    IF t1.tag = "Function" \/ t2.tag = "Function"
    THEN [Err(subst, "mismatch") EXCEPT !.rule = "unify"]
    ELSE [Ok(subst) EXCEPT !.rule = "unify"]

\* fn unify(&mut self, _t1, _t2) -> Result<()> { Ok(()) }
unify(subst, t1, t2) == [Ok(subst) EXCEPT !.rule = "unify"]

\* fn subtype(&mut self, _t1, _t2) -> Result<()> { Ok(()) }
subtype(subst, t1, t2) == [Ok(subst) EXCEPT !.rule = "subtype"]

\* fn occurs_check(&self, _var, _ty) -> Result<()> { Ok(()) }
occurs_check(subst, v, ty) == [Ok(subst) EXCEPT !.rule = "occurs_check"]

solve_constraint(subst, constraint) ==
    IF constraint.kind = "Equal" THEN unify(subst, constraint.t1, constraint.t2)
    ELSE IF constraint.kind = "Subtype" THEN subtype(subst, constraint.t1, constraint.t2)
    ELSE occurs_check(subst, constraint.var, constraint.t1)

\* the types and constraints a caller hands to the solver
SolverTypes ==
    {TypeInt, TypeStr, TypeVarOf(0), TypeVarOf(1), TypeList(TypeVarOf(0))}

FnOfOne == TypeFunction(<<TypeInt>>, TypeBool)
FnOfTwo == TypeFunction(<<TypeInt, TypeStr>>, TypeBool)

DrawnConstraints ==
    {Equal(a, b) : a \in SolverTypes, b \in SolverTypes}
    \cup {Equal(FnOfOne, FnOfTwo), Equal(FnOfOne, FnOfOne)}
    \cup {Subtype(TypeInt, TypeStr), Subtype(TypeVarOf(0), TypeInt)}
    \cup {Occurs(0, TypeList(TypeVarOf(0))), Occurs(1, TypeInt)}

\* ConstraintSolver::new()
SolverNew ==
    /\ pc = "pending"
    /\ next_var = U32Zero
    /\ constraints = <<>>
    /\ substitution = EmptyMap
    /\ added = <<>>
    /\ issued = <<>>
    /\ applied = <<>>
    /\ solve_result = <<>>

SolverIdle ==
    /\ pc = "idle"
    /\ next_var = U32Zero
    /\ constraints = <<>>
    /\ substitution = EmptyMap
    /\ added = <<>>
    /\ issued = <<>>
    /\ applied = <<>>
    /\ solve_result = <<>>

\* ConstraintSolver::fresh_var:
\* let var = TypeVar(self.next_var); self.next_var += 1; var
fresh_var ==
    /\ pc = "pending"
    /\ Len(issued) < MaxFresh
    /\ \E build \in OverflowBuilds :
        IF next_var = U32Max /\ build = "checked"
        THEN /\ pc' = "panicked"
             /\ UNCHANGED <<next_var, issued>>
        ELSE /\ issued' = Append(issued, next_var)
             /\ next_var' = WrappingAdd1(next_var)
             /\ pc' = pc
    /\ UNCHANGED <<constraints, substitution, added, applied, solve_result>>
    /\ UNCHANGED non_s_vars

\* ConstraintSolver::add_constraint
add_constraint ==
    /\ pc = "pending"
    /\ Len(constraints) < MaxConstraints
    /\ \E constraint \in DrawnConstraints :
        /\ constraints' = Append(constraints, constraint)
        /\ added' = Append(added, constraint)
    /\ UNCHANGED <<pc, next_var, substitution, issued, applied, solve_result>>
    /\ UNCHANGED non_s_vars

\* the loop of solve reading the last constraint without removing it
solve_iterate_NoPop ==
    /\ pc \in {"pending", "solving"}
    /\ constraints # <<>>
    /\ LET constraint == constraints[Len(constraints)]
           r == solve_constraint(substitution, constraint)
       IN  /\ substitution' = r.substitution
           /\ IF r.ok
              THEN pc' = "solving" /\ solve_result' = solve_result
              ELSE pc' = "failed" /\ solve_result' = <<[ok |-> FALSE, error |-> r.error, value |-> EmptyMap]>>
    /\ UNCHANGED <<next_var, constraints, added, issued, applied>>
    /\ UNCHANGED non_s_vars

\* ConstraintSolver::solve, one iteration of its loop:
\* while let Some(constraint) = self.constraints.pop() { self.solve_constraint(constraint)?; }
solve_iterate ==
    /\ pc \in {"pending", "solving"}
    /\ constraints # <<>>
    /\ LET constraint == constraints[Len(constraints)]
           r == solve_constraint(substitution, constraint)
       IN  /\ constraints' = SubSeq(constraints, 1, Len(constraints) - 1)
           /\ substitution' = r.substitution
           /\ applied' = Append(applied, [rule |-> r.rule, constraint |-> constraint])
           /\ IF r.ok
              THEN pc' = "solving" /\ solve_result' = solve_result
              ELSE pc' = "failed" /\ solve_result' = <<[ok |-> FALSE, error |-> r.error, value |-> EmptyMap]>>
    /\ UNCHANGED <<next_var, added, issued>>
    /\ UNCHANGED non_s_vars

\* solve with `if let` in place of `while let`: it returns after one constraint
solve_return_IfLet ==
    /\ pc \in {"pending", "solving"}
    /\ constraints = <<>> \/ pc = "solving"
    /\ pc' = "solved"
    /\ solve_result' = <<[ok |-> TRUE, error |-> "", value |-> substitution]>>
    /\ UNCHANGED <<next_var, constraints, substitution, added, issued, applied>>
    /\ UNCHANGED non_s_vars

\* ConstraintSolver::solve, the loop's exit: Ok(self.substitution)
solve_return ==
    /\ pc \in {"pending", "solving"}
    /\ constraints = <<>>
    /\ pc' = "solved"
    /\ solve_result' = <<[ok |-> TRUE, error |-> "", value |-> substitution]>>
    /\ UNCHANGED <<next_var, constraints, substitution, added, issued, applied>>
    /\ UNCHANGED non_s_vars

Init ==
    /\ SolverNew
    /\ UnionIdle
    /\ OrdIdle
    /\ EnvIdle
    /\ TraceIdle
    /\ DisplayIdle
    /\ CheckIdle
    /\ ConvertIdle
    /\ UiIdle

Next == fresh_var \/ add_constraint \/ solve_iterate \/ solve_return

Spec == Init /\ [][Next]_vars

\* solve() runs without interruption: once its loop has begun, its next step is taken
SolveStep == pc = "solving" /\ (solve_iterate \/ solve_return)

SpecFair == Spec /\ WF_vars(SolveStep)

\* the values next_var can hold when fresh_var is called: fresh_var has been
\* called that many times on a new solver
DrawnCounters ==
    {U32Zero, U32(0, LimbModulus - 1), U32(LimbModulus - 1, LimbModulus - 2), U32Max}

InitFresh ==
    /\ pc = "pending"
    /\ next_var \in DrawnCounters
    /\ constraints = <<>>
    /\ substitution = EmptyMap
    /\ added = <<>>
    /\ issued = <<>>
    /\ applied = <<>>
    /\ solve_result = <<>>
    /\ UnionIdle
    /\ OrdIdle
    /\ EnvIdle
    /\ TraceIdle
    /\ DisplayIdle
    /\ CheckIdle
    /\ ConvertIdle
    /\ UiIdle

SpecFresh == InitFresh /\ [][Next]_vars

----------------------------------------------------------------------------
(* union_of applied to every drawn input *)

InitUnion ==
    /\ u_pc = "input"
    /\ u_types \in UnionInputs
    /\ u_result = <<>>
    /\ u_other = <<>>
    /\ u_other_result = <<>>
    /\ OrdIdle
    /\ SolverIdle
    /\ EnvIdle
    /\ TraceIdle
    /\ DisplayIdle
    /\ CheckIdle
    /\ ConvertIdle
    /\ UiIdle

\* Type::union_of(types)
CallUnionOf ==
    /\ u_pc = "input"
    /\ u_result' = <<union_of(u_types)>>
    /\ u_pc' = "called"
    /\ UNCHANGED <<u_types, u_other, u_other_result>>
    /\ UNCHANGED non_u_vars

\* Type::union_of(ys) for a permutation ys of types
CallOnShuffled ==
    /\ u_pc = "called"
    /\ \E p \in Shuffles(Len(u_types)) :
        /\ u_other' = [i \in 1..Len(u_types) |-> u_types[p[i]]]
        /\ u_other_result' = <<union_of(u_other')>>
    /\ u_pc' = "shuffled"
    /\ UNCHANGED <<u_types, u_result>>
    /\ UNCHANGED non_u_vars

\* Type::union_of(vec![Type::union_of(types)])
CallOnResult ==
    /\ u_pc = "called"
    /\ u_other' = <<u_result[1]>>
    /\ u_other_result' = <<union_of(u_other')>>
    /\ u_pc' = "reapplied"
    /\ UNCHANGED <<u_types, u_result>>
    /\ UNCHANGED non_u_vars

\* Type::union_of(vec![Type::union_of(vec![a, b]), c]) for types = [a, b, c]
CallNested ==
    /\ u_pc = "called"
    /\ Len(u_types) = 3
    /\ u_other' = <<union_of(<<u_types[1], u_types[2]>>), u_types[3]>>
    /\ u_other_result' = <<union_of(u_other')>>
    /\ u_pc' = "nested"
    /\ UNCHANGED <<u_types, u_result>>
    /\ UNCHANGED non_u_vars

\* Type::union_of(members of U followed by ys) for types = U followed by ys,
\* U a Union whose members are not Unions
CallFlattened ==
    /\ u_pc = "called"
    /\ u_types # <<>>
    /\ u_types[1].tag = "Union"
    /\ \A i \in 1..Len(u_types[1].args) : u_types[1].args[i].tag # "Union"
    /\ u_other' = u_types[1].args \o Tail(u_types)
    /\ u_other_result' = <<union_of(u_other')>>
    /\ u_pc' = "flattened"
    /\ UNCHANGED <<u_types, u_result>>
    /\ UNCHANGED non_u_vars

NextUnion ==
    CallUnionOf \/ CallOnShuffled \/ CallOnResult \/ CallNested \/ CallFlattened

SpecUnion == InitUnion /\ [][NextUnion]_vars

----------------------------------------------------------------------------
(* cmp and eq applied to every drawn triple *)

InitOrd ==
    /\ o_pc = "input"
    /\ o_a \in OrdUniverse
    /\ o_b \in OrdUniverse
    /\ o_c \in OrdUniverse
    /\ o_cmp = <<>>
    /\ UnionIdle
    /\ SolverIdle
    /\ EnvIdle
    /\ TraceIdle
    /\ DisplayIdle
    /\ CheckIdle
    /\ ConvertIdle
    /\ UiIdle

\* a.cmp(&b), b.cmp(&a), b.cmp(&c), a.cmp(&c) and a == b
Compare ==
    /\ o_pc = "input"
    /\ o_cmp' = [ab |-> cmp(o_a, o_b), ba |-> cmp(o_b, o_a), bc |-> cmp(o_b, o_c),
                 ac |-> cmp(o_a, o_c), eq_ab |-> eq(o_a, o_b)]
    /\ o_pc' = "compared"
    /\ UNCHANGED <<o_a, o_b, o_c>>
    /\ UNCHANGED non_o_vars

NextOrd == Compare

SpecOrd == InitOrd /\ [][NextOrd]_vars

----------------------------------------------------------------------------
(* A TypeEnv built by nested, bind and lookup calls *)

InitEnv ==
    /\ e_pc = "live"
    /\ e_env = TypeEnvNew
    /\ e_nested_from = <<>>
    /\ e_last = NoEnvCall
    /\ UnionIdle
    /\ OrdIdle
    /\ SolverIdle
    /\ TraceIdle
    /\ DisplayIdle
    /\ CheckIdle
    /\ ConvertIdle
    /\ UiIdle

\* let child = TypeEnv::nested(env)
EnvNested ==
    /\ e_pc = "live"
    /\ Len(e_env) < MaxScopes
    /\ e_env' = nested(e_env)
    /\ e_nested_from' = Append(e_nested_from, e_env)
    /\ e_last' = EnvCall("nested", "", TypeUnknown, <<>>, e_env)
    /\ UNCHANGED e_pc
    /\ UNCHANGED non_e_vars

\* env.bind(name, ty)
EnvBind ==
    /\ e_pc = "live"
    /\ \E name \in EnvNames, ty \in EnvTypes :
        LET r == bind(e_env, name, ty)
        IN  /\ e_env' = r.env
            /\ e_last' = EnvCall("bind", name, ty, r.returned, e_env)
    /\ UNCHANGED <<e_pc, e_nested_from>>
    /\ UNCHANGED non_e_vars

\* env.lookup(name)
EnvLookup ==
    /\ e_pc = "live"
    /\ \E name \in EnvNames :
        e_last' = EnvCall("lookup", name, TypeUnknown, lookup(e_env, name), e_env)
    /\ UNCHANGED <<e_pc, e_env, e_nested_from>>
    /\ UNCHANGED non_e_vars

NextEnv == EnvNested \/ EnvBind \/ EnvLookup

SpecEnv == InitEnv /\ [][NextEnv]_vars

----------------------------------------------------------------------------
(* A TypeTrace fed observations and queried *)

InitTrace ==
    /\ t_pc = "tracing"
    /\ t_variables = NoVariables
    /\ t_functions = NoFunctions
    /\ t_observed = <<>>
    /\ t_query = <<>>
    /\ UnionIdle
    /\ OrdIdle
    /\ SolverIdle
    /\ EnvIdle
    /\ DisplayIdle
    /\ CheckIdle
    /\ ConvertIdle
    /\ UiIdle

\* trace.add_variable(name, type_info); it takes &mut self, so the Vec<&Type>
\* of an earlier get_variable_types is no longer held
TraceAddVariable ==
    /\ t_pc = "tracing"
    /\ Len(t_observed) < MaxObservations
    /\ \E name \in TraceNames, type_info \in TraceTypes :
        /\ t_variables' = add_variable(t_variables, name, type_info)
        /\ t_observed' = Append(t_observed, [name |-> name, ty |-> type_info])
    /\ t_query' = <<>>
    /\ UNCHANGED <<t_pc, t_functions>>
    /\ UNCHANGED non_t_vars

\* let types = trace.get_variable_types(name)
TraceGetVariableTypes ==
    /\ t_pc = "tracing"
    /\ \E name \in TraceNames :
        t_query' = <<[name |-> name, types |-> get_variable_types(t_variables, name)]>>
    /\ UNCHANGED <<t_pc, t_variables, t_functions, t_observed>>
    /\ UNCHANGED non_t_vars

NextTrace == TraceAddVariable \/ TraceGetVariableTypes

SpecTrace == InitTrace /\ [][NextTrace]_vars

----------------------------------------------------------------------------
(* Display applied to every drawn type *)

InitDisplay ==
    /\ d_pc = "input"
    /\ d_type \in DisplayUniverse
    /\ d_text = <<>>
    /\ UnionIdle
    /\ OrdIdle
    /\ SolverIdle
    /\ EnvIdle
    /\ TraceIdle
    /\ CheckIdle
    /\ ConvertIdle
    /\ UiIdle

\* ty.to_string()
CallToString ==
    /\ d_pc = "input"
    /\ d_text' = fmt(d_type)
    /\ d_pc' = "displayed"
    /\ UNCHANGED d_type
    /\ UNCHANGED non_d_vars

NextDisplay == CallToString

SpecDisplay == InitDisplay /\ [][NextDisplay]_vars

----------------------------------------------------------------------------
(* omnitype check run on every drawn path and format *)

InitCheck ==
    /\ c_pc = "input"
    /\ c_path \in PathKinds
    /\ c_files \in FilesOf(c_path)
    /\ c_format \in Formats
    /\ c_exit = <<>>
    /\ UnionIdle
    /\ OrdIdle
    /\ SolverIdle
    /\ EnvIdle
    /\ TraceIdle
    /\ DisplayIdle
    /\ ConvertIdle
    /\ UiIdle

\* main with Commands::Check { path, format }, until the process exits
RunCheck ==
    /\ c_pc = "input"
    /\ c_exit' = <<ExitStatus(c_path, c_files, c_format)>>
    /\ c_pc' = "exited"
    /\ UNCHANGED <<c_path, c_files, c_format>>
    /\ UNCHANGED non_c_vars

NextCheck == RunCheck

SpecCheck == InitCheck /\ [][NextCheck]_vars

----------------------------------------------------------------------------
(* The name of every drawn traced value emitted and converted *)

InitConvert ==
    /\ p_pc = "input"
    /\ p_shape \in PyValues
    /\ p_name = <<>>
    /\ p_type = <<>>
    /\ UnionIdle
    /\ OrdIdle
    /\ SolverIdle
    /\ EnvIdle
    /\ TraceIdle
    /\ DisplayIdle
    /\ CheckIdle
    /\ UiIdle

\* the instrumented script calls a function f on the value and f returns
\* it: trace_function_call records get_type_name of the argument and of the
\* result under "functions"
EmitTypeName ==
    /\ p_pc = "input"
    /\ p_name' = get_type_name(p_shape)
    /\ p_pc' = "emitted"
    /\ UNCHANGED <<p_shape, p_type>>
    /\ UNCHANGED non_p_vars

\* process_trace_data on that output: "variables" is empty; for the one call
\* of f the argument's and the result's name are converted and the call is
\* stored by add_function_call, unless the conversion panics
ConvertTypeName ==
    /\ p_pc = "emitted"
    /\ LET our_type == convert_python_type_to_our_type(p_name)
       IN  /\ p_type' = <<our_type>>
           /\ IF our_type = SlicePanic
              THEN /\ p_pc' = "panicked"
                   /\ UNCHANGED t_functions
              ELSE /\ p_pc' = "converted"
                   /\ t_functions' =
                        add_function_call(t_functions, "f", <<our_type>>, our_type)
    /\ UNCHANGED <<p_shape, p_name>>
    /\ UNCHANGED <<t_pc, t_variables, t_observed, t_query>>
    /\ UNCHANGED non_p_t_vars

NextConvert == EmitTypeName \/ ConvertTypeName

SpecConvert == InitConvert /\ [][NextConvert]_vars

----------------------------------------------------------------------------
(* App::run: draw and handle_events in turn *)

\* App::new() followed by the terminal setup of run()
InitUi ==
    /\ a_pc = "draw"
    /\ \E depth \in 0..MaxDirDepth, listing \in {<<>>} \cup {<<f>> : f \in Listings} :
        app = AppNew(depth, listing)
    /\ a_drawn = ""
    /\ a_quit_key = FALSE
    /\ UnionIdle
    /\ OrdIdle
    /\ SolverIdle
    /\ EnvIdle
    /\ TraceIdle
    /\ DisplayIdle
    /\ CheckIdle
    /\ ConvertIdle

\* self.draw(&mut terminal)?
draw ==
    /\ a_pc = "draw"
    /\ \E io_ok \in BOOLEAN :
        IF io_ok
        THEN /\ a_drawn' = DrawnPane(app.selected_tab)
             /\ a_pc' = "events"
        ELSE /\ a_pc' = "failed"
             /\ UNCHANGED a_drawn
    /\ a_quit_key' = FALSE                        \* a new turn of the loop
    /\ UNCHANGED app
    /\ UNCHANGED non_a_vars

\* self.handle_events()?, then the test of `while !self.should_quit`: the
\* bool handle_events returns is dropped; when should_quit holds the terminal
\* is restored and run returns
handle_events ==
    /\ a_pc = "events"
    /\ \E polled \in BOOLEAN :
        IF polled
        THEN \E handled \in Handled(app) :
                /\ WithinBounds(handled.app)
                /\ app' = handled.app
                /\ a_quit_key' = handled.quit_key
                /\ a_pc' = IF app'.should_quit THEN "returned" ELSE "draw"
        ELSE /\ a_pc' = "failed"                  \* event::poll or event::read is Err
             /\ UNCHANGED <<app, a_quit_key>>
    /\ UNCHANGED a_drawn
    /\ UNCHANGED non_a_vars

NextUi == draw \/ handle_events

SpecUi == InitUi /\ [][NextUi]_vars

----------------------------------------------------------------------------
(* Claims about Type::union_of, under SpecUnion *)

\* the result of the first call, once made
Result == u_result[1]
OtherResult == u_other_result[1]

\* the non-Union types found in a sequence of types by opening every Union in
\* it, at every depth
RECURSIVE FlatMembers(_)
FlatMembers(types) ==
    UNION { IF types[i].tag = "Union" THEN FlatMembers(types[i].args) ELSE {types[i]}
            : i \in 1..Len(types) }

\* C1: union_of is commutative: the union of any permutation of the input,
\* Unions among its members included, equals the union of the input.
C1_UnionOfCommutative ==
    u_pc = "shuffled" => eq(OtherResult, Result)

\* C1 is exercised: a reordered input with a Union member, merged into a
\* Union of at least two members.
C1_Witness ==
    /\ u_pc = "shuffled"
    /\ u_other # u_types
    /\ \E i \in 1..Len(u_types) : u_types[i].tag = "Union" /\ u_types[i].args # <<>>
    /\ Result.tag = "Union"
    /\ Len(Result.args) >= 2
    /\ eq(OtherResult, Result)

\* C2: union_of is idempotent: the union of the one-member sequence that holds
\* union_of(xs) equals union_of(xs), for every xs.
C2_UnionOfIdempotent ==
    u_pc = "reapplied" => eq(OtherResult, Result)

\* C3: union_of is associative under nesting: for every A, B, C,
\* union_of([union_of([A, B]), C]) = union_of([A, B, C]) = union_of([C, B, A]).
C3_UnionOfAssociative ==
    u_pc = "nested" =>
        /\ eq(OtherResult, Result)
        /\ eq(union_of(<<u_types[3], u_types[2], u_types[1]>>), Result)

\* C4: union_of never returns a Union of zero or one member: the result is
\* Unknown when no member remains, the member when one distinct member
\* remains, and a Union only when at least two distinct members remain.
C4_NoSmallUnion ==
    u_pc = "called" =>
        LET members == FlatMembers(u_types)
        IN  /\ members = {} => Result = TypeUnknown
            /\ Cardinality(members) = 1 => Result \in members
            /\ Result.tag = "Union" =>
                   Cardinality(members) >= 2 /\ Len(Result.args) >= 2

\* C5: the result of union_of is fully flattened: no member of a returned
\* Union is itself a Union, whatever the nesting depth of the input.
C5_FullyFlattened ==
    (u_pc = "called" /\ Result.tag = "Union") =>
        \A i \in 1..Len(Result.args) : Result.args[i].tag # "Union"

\* C6: the members of a Union returned by union_of are strictly increasing
\* under cmp: each member compares Less than the next.
C6_StrictlyIncreasing ==
    (u_pc = "called" /\ Result.tag = "Union") =>
        \A i \in 1..(Len(Result.args) - 1) :
            cmp(Result.args[i], Result.args[i + 1]) = "Less"

----------------------------------------------------------------------------
(* Claims about cmp and eq, under SpecOrd *)

\* Ordering::reverse
Reverse(o) == IF o = "Less" THEN "Greater" ELSE IF o = "Greater" THEN "Less" ELSE "Equal"

\* C7: cmp and eq agree and cmp is a total order: a.cmp(b) is Equal exactly
\* when a == b, a.cmp(b) is the reverse of b.cmp(a), and Less is transitive.
C7_TotalOrder ==
    o_pc = "compared" =>
        /\ (o_cmp.ab = "Equal") <=> o_cmp.eq_ab
        /\ o_cmp.ab = Reverse(o_cmp.ba)
        /\ (o_cmp.ab = "Less" /\ o_cmp.bc = "Less") => o_cmp.ac = "Less"

\* C7 is exercised: three different types of one composite variant in a
\* chain a < b < c.
C7_Witness ==
    /\ o_pc = "compared"
    /\ o_a.tag = "Function" /\ o_b.tag = "Function" /\ o_c.tag = "Function"
    /\ o_cmp.ab = "Less" /\ o_cmp.bc = "Less" /\ o_cmp.ac = "Less"
    /\ o_cmp.ba = "Greater"
    /\ ~o_cmp.eq_ab

----------------------------------------------------------------------------
(* Claims about ConstraintSolver, under Spec *)

\* solve() has returned
Returned == pc \in {"solved", "failed"}

\* whether Var(v) occurs in ty, at any depth
RECURSIVE ContainsVar(_, _)
ContainsVar(ty, v) ==
    \/ ty.tag = "Var" /\ ty.id = v
    \/ \E i \in 1..Len(ty.args) : ContainsVar(ty.args[i], v)
    \/ \E i \in 1..Len(ty.ret) : ContainsVar(ty.ret[i], v)

\* ty resolved by walking the substitution, through at most n bindings
RECURSIVE Walk(_, _, _)
Walk(subst, ty, n) ==
    IF n > 0 /\ ty.tag = "Var" /\ ty.id \in DOMAIN subst
    THEN Walk(subst, subst[ty.id], n - 1)
    ELSE ty

\* Equal(T1, T2) between two different variants, neither a type variable
IsMismatch(c) ==
    /\ c.kind = "Equal"
    /\ c.t1.tag # "Var" /\ c.t2.tag # "Var"
    /\ c.t1.tag # c.t2.tag

\* Equal between Var(v) and a type other than Var(v) that contains Var(v)
IsInfinite(c) ==
    /\ c.kind = "Equal"
    /\ \/ c.t1.tag = "Var" /\ c.t2.tag # "Var" /\ ContainsVar(c.t2, c.t1.id)
       \/ c.t2.tag = "Var" /\ c.t1.tag # "Var" /\ ContainsVar(c.t1, c.t2.id)

\* C8: solving a constraint set that holds Equal(T1, T2) for two different
\* concrete variants returns an error, not Ok.
C8_MismatchFails ==
    (Returned /\ \E i \in 1..Len(added) : IsMismatch(added[i])) =>
        (pc = "failed" /\ ~solve_result[1].ok)

\* C9: solving a constraint set that holds Equal(Var(v), T) with Var(v) inside
\* T returns an error, and no returned substitution binds a variable to a type
\* that contains it.
C9_OccursCheckFails ==
    /\ (Returned /\ \E i \in 1..Len(added) : IsInfinite(added[i])) =>
           (pc = "failed" /\ ~solve_result[1].ok)
    /\ pc = "solved" =>
           \A v \in DOMAIN solve_result[1].value :
               ~ContainsVar(solve_result[1].value[v], v)

\* C10: after add_constraint(Equal(Var(0), Int)) and
\* add_constraint(Equal(Var(0), Var(1))), solve() returns Ok with a
\* substitution in which Var(0) and Var(1) both walk to Int.
C10_BindingPropagates ==
    (Returned /\ added = <<Equal(TypeVarOf(0), TypeInt), Equal(TypeVarOf(0), TypeVarOf(1))>>) =>
        /\ pc = "solved"
        /\ solve_result[1].ok
        /\ Walk(solve_result[1].value, TypeVarOf(0), MaxConstraints + 1) = TypeInt
        /\ Walk(solve_result[1].value, TypeVarOf(1), MaxConstraints + 1) = TypeInt

\* Equal between two Function types whose parameter lists differ in length
IsArityMismatch(c) ==
    /\ c.kind = "Equal"
    /\ c.t1.tag = "Function" /\ c.t2.tag = "Function"
    /\ Len(c.t1.args) # Len(c.t2.args)

\* C11: solving Equal between two Function types with parameter lists of
\* different lengths returns an (arity mismatch) error.
C11_ArityMismatchFails ==
    (Returned /\ \E i \in 1..Len(added) : IsArityMismatch(added[i])) =>
        (pc = "failed" /\ ~solve_result[1].ok)

\* Equal(T, T) for a type T without type variables
IsReflexive(c) ==
    /\ c.kind = "Equal"
    /\ c.t1 = c.t2
    /\ \A v \in 0..MaxVarId : ~ContainsVar(c.t1, v)

\* C12: unification is reflexive: a solver that holds only Equal(T, T)
\* constraints over concrete types solves successfully and returns the
\* substitution it had before solving (the empty one of a new solver).
C12_UnifyReflexive ==
    (Returned /\ \A i \in 1..Len(added) : IsReflexive(added[i])) =>
        /\ pc = "solved"
        /\ solve_result[1].ok
        /\ solve_result[1].value = EmptyMap

\* C12 is exercised: a solved set of reflexive constraints, one of them
\* between Function types.
C12_Witness ==
    /\ pc = "solved"
    /\ Len(added) >= 2
    /\ \A i \in 1..Len(added) : IsReflexive(added[i])
    /\ \E i \in 1..Len(added) : added[i].t1.tag = "Function"
    /\ \E i \in 1..Len(added) : added[i].t1.tag \in Primitives

\* the rule the spec gives each kind of constraint
RuleOf(kind) ==
    IF kind = "Equal" THEN "unify"
    ELSE IF kind = "Subtype" THEN "subtype"
    ELSE "occurs_check"

\* C13: solve() drains the worklist: when it returns Ok the worklist is empty
\* and every added constraint has been removed and has had the rule of its
\* kind applied exactly once.
C13_SolveDrains ==
    pc = "solved" =>
        /\ constraints = <<>>
        /\ Len(applied) = Len(added)
        /\ \A i \in 1..Len(added) :
            /\ applied[i].constraint = added[Len(added) + 1 - i]
            /\ applied[i].rule = RuleOf(applied[i].constraint.kind)

\* C13 is exercised: solve() returned Ok after at least two constraints of
\* different kinds.
C13_Witness ==
    /\ pc = "solved"
    /\ Len(added) >= 2
    /\ added[1].kind # added[2].kind
    /\ Len(applied) = Len(added)

\* C14: solve() terminates: no step of solving makes the worklist longer, and
\* once solving has begun a terminal state (Solved or Failed) is reached.
C14_SolveTerminates ==
    /\ [][pc' # "pending" => Len(constraints') <= Len(constraints)]_vars
    /\ (pc = "solving") ~> Returned

\* C14 is exercised: solve() has returned after as many iterations as the
\* bound on added constraints allows.
C14_Witness ==
    /\ Returned
    /\ Len(applied) >= 2
    /\ constraints = <<>>

\* C15: fresh_var is strictly monotonic: every TypeVar id it returns is
\* greater than every id it returned earlier, so no id is returned twice.
C15_FreshVarMonotonic ==
    \A i, j \in 1..Len(issued) : i < j => U32Less(issued[i], issued[j])

----------------------------------------------------------------------------
(* Claims about TypeEnv, under SpecEnv *)

\* the scopes of env that bind name, counted from the outermost
Binders(env, name) == {i \in 1..Len(env) : name \in DOMAIN env[i]}

\* the innermost of a non-empty set of scopes
Innermost(scopes) == CHOOSE i \in scopes : \A j \in scopes : j <= i

\* the environment reached from env by following parent() n times, <<>> if
\* the chain is shorter
RECURSIVE Ancestor(_, _)
Ancestor(env, n) ==
    IF n = 0 THEN <<env>>
    ELSE IF parent(env) = <<>> THEN <<>>
    ELSE Ancestor(parent(env)[1], n - 1)

\* C16: lookup(name) returns the binding of name in the innermost scope that
\* binds it, searching the environment itself and then its ancestors, and
\* returns none exactly when no scope of the chain binds name.
C16_LookupInnermost ==
    e_last.op = "lookup" =>
        LET scopes == Binders(e_env, e_last.name)
        IN  /\ (e_last.returned = <<>>) <=> (scopes = {})
            /\ scopes # {} =>
                e_last.returned = <<e_env[Innermost(scopes)][e_last.name]>>

\* a lookup of a name that the environment and its parent bind to different types
C16_Witness ==
    /\ e_last.op = "lookup"
    /\ Len(e_env) = 2
    /\ Cardinality(Binders(e_env, e_last.name)) = 2
    /\ e_env[1][e_last.name] # e_env[2][e_last.name]
    /\ e_last.returned = <<e_env[2][e_last.name]>>

\* C17: whatever is bound in a nested environment, every ancestor reached
\* from it through parent() has exactly the bindings it had when nested was
\* called on it.
C17_BindLeavesAncestors ==
    \A n \in 1..Len(e_nested_from) :
        Ancestor(e_env, n) = <<e_nested_from[Len(e_nested_from) + 1 - n]>>

\* a bind in a nested environment of a name its parent binds to another type
C17_Witness ==
    /\ e_last.op = "bind"
    /\ Len(e_env) = 2
    /\ e_last.name \in DOMAIN e_env[1]
    /\ e_env[1][e_last.name] # e_last.ty
    /\ parent(e_env) = <<e_nested_from[1]>>

\* C18: bind(name, ty) returns the type name was bound to in the environment's
\* own scope before the call, and none when that scope did not bind name,
\* whether or not an ancestor binds it.
C18_BindReturnsPrevious ==
    e_last.op = "bind" =>
        LET own == e_last.before[Len(e_last.before)]
        IN  IF e_last.name \in DOMAIN own
            THEN e_last.returned = <<own[e_last.name]>>
            ELSE e_last.returned = <<>>

\* a bind that returned none although the parent bound the name
C18_Witness ==
    /\ e_last.op = "bind"
    /\ Len(e_last.before) = 2
    /\ e_last.name \in DOMAIN e_last.before[1]
    /\ e_last.name \notin DOMAIN e_last.before[2]
    /\ e_last.returned = <<>>

\* C19: a name that lookup resolves in an environment is still resolved by
\* lookup after any further call on that environment or on an environment
\* nested in it.
C19_BindingsPersist ==
    [][\A name \in EnvNames :
        lookup(e_env, name) # <<>> => lookup(e_env', name) # <<>>]_vars

\* a bind of one name in an environment that already resolved the other
C19_Witness ==
    /\ e_last.op = "bind"
    /\ \E name \in EnvNames :
        /\ name # e_last.name
        /\ lookup(e_last.before, name) # <<>>
        /\ lookup(e_env, name) # <<>>

----------------------------------------------------------------------------
(* Claims about TypeTrace, under SpecTrace *)

\* the types observed for name, in the order they were observed
RECURSIVE ObservedFor(_, _)
ObservedFor(observed, name) ==
    IF observed = <<>> THEN <<>>
    ELSE LET rest == ObservedFor(SubSeq(observed, 1, Len(observed) - 1), name)
             last == observed[Len(observed)]
         IN  IF last.name = name THEN Append(rest, last.ty) ELSE rest

Elements(seq) == {seq[i] : i \in 1..Len(seq)}

\* C20 as stated: the observations of a variable are merged with union_of, so
\* a variable observed as Int and as Str, in either order, has the one final
\* type Union([Int, Str]).
C20_MergedWithUnionOf ==
    \A i \in 1..Len(t_query) :
        ObservedFor(t_observed, t_query[i].name) # <<>> =>
            t_query[i].types = <<union_of(ObservedFor(t_observed, t_query[i].name))>>

\* C20: the observations of a variable are kept, not overwritten and not
\* merged by union_of: get_variable_types returns exactly the types that
\* were observed for the variable, whatever the order of the observations,
\* and never only the last-seen type.
C20_ObservationsKept ==
    \A i \in 1..Len(t_query) :
        Elements(t_query[i].types) = Elements(ObservedFor(t_observed, t_query[i].name))

\* a variable observed as Str and then as Int, reported with both types
C20_Witness ==
    /\ t_query # <<>>
    /\ ObservedFor(t_observed, t_query[1].name) = <<TypeStr, TypeInt>>
    /\ Elements(t_query[1].types) = {TypeInt, TypeStr}

----------------------------------------------------------------------------
(* Further claims about Type::union_of, under SpecUnion *)

\* C21: union_of of the empty sequence is Unknown, and union_of of one or
\* more copies of one non-Union type T is T itself, not Union([T]).
C21_CollapseCases ==
    u_result # <<>> =>
        /\ u_types = <<>> => Result = TypeUnknown
        /\ ( /\ u_types # <<>>
             /\ u_types[1].tag # "Union"
             /\ \A i \in 1..Len(u_types) : u_types[i] = u_types[1] )
           => Result = u_types[1]

\* union_of has been applied to several copies of one composite type
C21_Witness ==
    /\ u_result # <<>>
    /\ Len(u_types) >= 2
    /\ u_types[1].tag = "List"
    /\ \A i \in 1..Len(u_types) : u_types[i] = u_types[1]
    /\ Result = u_types[1]

\* C23: for a Union U whose members are not Unions and any types ys,
\* union_of of U followed by ys equals union_of of U's members followed by ys.
C23_OneLevelFlattening ==
    u_pc = "flattened" => OtherResult = Result

----------------------------------------------------------------------------
(* Further claims about cmp, under SpecOrd *)

\* the precedence of the variants
VariantOrder ==
    << "Unknown", "None", "Any", "Bool", "Int", "Float", "Str", "Bytes", "List",
       "Dict", "Tuple", "Set", "Function", "Union", "Var", "Named", "Generic" >>

Rank(tag) == CHOOSE i \in 1..Len(VariantOrder) : VariantOrder[i] = tag

\* C22: for two types of different variants cmp is decided by the variants
\* alone, in the precedence Unknown < None < Any < Bool < Int < Float < Str <
\* Bytes < List < Dict < Tuple < Set < Function < Union < Var < Named <
\* Generic: it is Less when the first variant comes earlier and Greater when
\* it comes later, never Equal, whatever the sub-parts are.
C22_VariantPrecedence ==
    (o_pc = "compared" /\ o_a.tag # o_b.tag) =>
        /\ o_cmp.ab = (IF Rank(o_a.tag) < Rank(o_b.tag) THEN "Less" ELSE "Greater")
        /\ o_cmp.ba = (IF Rank(o_b.tag) < Rank(o_a.tag) THEN "Less" ELSE "Greater")

\* a Tuple with members compared with a Set, and a Generic with a Named
C22_Witness ==
    /\ o_pc = "compared"
    /\ o_a.tag = "Tuple" /\ o_a.args # <<>> /\ o_b.tag = "Set"
    /\ o_cmp.ab = "Less" /\ o_cmp.ba = "Greater"
    /\ o_c.tag = "Generic"
    /\ o_cmp.ac = "Less" /\ o_cmp.bc = "Less"

----------------------------------------------------------------------------
(* Claims about Display, under SpecDisplay *)

\* the word that opens the rendering of a variant with bracketed sub-types
HeadWord ==
    [ List     |-> <<76, 105, 115, 116>>,                          \* List
      Dict     |-> <<68, 105, 99, 116>>,                         \* Dict
      Tuple    |-> <<84, 117, 112, 108, 101>>,                   \* Tuple
      Set      |-> <<83, 101, 116>>,                               \* Set
      Function |-> <<67, 97, 108, 108, 97, 98, 108, 101>> ]     \* Callable

\* name[inner]
Bracketed(name, inner) == name \o <<91>> \o inner \o <<93>>

\* the texts, each but the first preceded by the separator
RECURSIVE Separated(_, _, _)
Separated(texts, sep, i) ==
    IF i > Len(texts) THEN <<>>
    ELSE (IF i = 1 THEN <<>> ELSE sep) \o texts[i] \o Separated(texts, sep, i + 1)

\* the digits of n, the most significant first
RECURSIVE Digits(_, _)
Digits(n, later) ==
    IF n < 10 THEN <<48 + n>> \o later
    ELSE Digits(n \div 10, <<48 + (n % 10)>> \o later)

\* the surface syntax of a type
RECURSIVE Surface(_)
Surface(t) ==
    LET parts == [i \in 1..Len(t.args) |-> Surface(t.args[i])]
        list == Separated(parts, <<44, 32>>, 1)
    IN  CASE t.tag \in {"List", "Set", "Dict", "Tuple"} ->
                Bracketed(HeadWord[t.tag], list)
          [] t.tag = "Function" ->
                Bracketed(HeadWord[t.tag],
                          Bracketed(<<>>, list) \o <<44, 32>> \o Surface(t.ret[1]))
          [] t.tag = "Union" -> Separated(parts, <<32, 124, 32>>, 1)
          [] t.tag = "Var" -> <<84>> \o Digits(t.id, <<>>)
          [] t.tag = "Named" -> t.name
          [] t.tag = "Generic" -> Bracketed(t.name, list)
          [] t.tag = "Bool" -> <<98, 111, 111, 108>>
          [] t.tag = "Int" -> <<105, 110, 116>>
          [] t.tag = "Str" -> <<115, 116, 114>>
          [] OTHER -> PrimitiveText[t.tag]

\* C24: Display renders every type in the surface syntax List[T], Dict[K, V],
\* Tuple[A, B, ...], Set[T], Callable[[P1, P2], R], Union members joined with
\* " | ", type variable n as T followed by n, Generic as Name[P1, P2, ...],
\* Int as int, Str as str and Bool as bool, the sub-types rendered by the same
\* rules.
C24_DisplaySurfaceSyntax ==
    d_pc = "displayed" => d_text = Surface(d_type)

\* the Function type of the test rendered as Callable[[int, str], bool]
C24_Witness ==
    /\ d_pc = "displayed"
    /\ d_type = TypeFunction(<<TypeInt, TypeStr>>, TypeBool)
    /\ d_text = <<67, 97, 108, 108, 97, 98, 108, 101, 91, 91, 105, 110, 116, 44, 32, 115, 116, 114, 93, 44, 32, 98, 111, 111, 108, 93>>

----------------------------------------------------------------------------
(* Further claims about TypeTrace, under SpecTrace *)

\* the position of the first observation of ty in types
FirstSeen(types, ty) == CHOOSE i \in 1..Len(types) :
    /\ types[i] = ty
    /\ \A j \in 1..(i - 1) : types[j] # ty

\* C25: get_variable_types(name) returns every distinct type observed for
\* name exactly once, none missing and none twice, in the order in which the
\* types were first observed, and the empty list for a name never observed.
C25_DistinctInFirstSeenOrder ==
    \A q \in 1..Len(t_query) :
        LET types == t_query[q].types
            seen == ObservedFor(t_observed, t_query[q].name)
        IN  /\ \A i \in 1..Len(seen) : \E j \in 1..Len(types) : types[j] = seen[i]
            /\ \A j \in 1..Len(types) : \E i \in 1..Len(seen) : seen[i] = types[j]
            /\ \A i, j \in 1..Len(types) : i < j =>
                /\ types[i] # types[j]
                /\ FirstSeen(seen, types[i]) < FirstSeen(seen, types[j])
            /\ seen = <<>> => types = <<>>

\* a variable observed as Str, Int and Str again, reported as [Str, Int]
C25_Witness ==
    /\ t_query # <<>>
    /\ ObservedFor(t_observed, t_query[1].name) = <<TypeStr, TypeInt, TypeStr>>
    /\ t_query[1].types = <<TypeStr, TypeInt>>

----------------------------------------------------------------------------
(* Claims about the check command, under SpecCheck *)

\* C26: the check command exits with a non-zero status exactly when at least
\* one diagnostic was produced for the analysed files, in every output format.
C26_ExitReflectsDiagnostics ==
    c_pc = "exited" =>
        (c_exit[1] # 0) <=> (\E i \in 1..Len(c_files) :
                                c_files[i].ok /\ c_files[i].diagnostics > 0)

----------------------------------------------------------------------------
(* Claims about convert_python_type_to_our_type, under SpecConvert *)

\* C27: the type name the tracer emits for a value is converted to the Type
\* that matches the value's structure: primitives to their variant, List[X]
\* and Set[X] to List and Set of the converted X, Dict[K, V] to Dict of the
\* converted K and V, Tuple[A, B, ...] to the Tuple of the converted items,
\* also when these are themselves Dict or Tuple names, and any other name to
\* Named(name).
C27_ConvertMatchesStructure ==
    p_pc \in {"converted", "panicked"} =>
        /\ p_pc = "converted"
        /\ p_type[1] = p_shape
        /\ t_functions["f"] = [args |-> <<<<p_shape>>>>, returns |-> <<p_shape>>]

----------------------------------------------------------------------------
(* Claims about the terminal UI, under SpecUi *)

\* C28: once handle_events has processed a press of 'q', should_quit holds,
\* the loop of App::run has stopped and run has returned.
C28_QuitEndsRun ==
    a_quit_key => (app.should_quit /\ a_pc = "returned")

\* C29: a selection of the file list is an index into the current file list,
\* and there is no selection when the list is empty.
C29_SelectionInRange ==
    app.file_list_state # <<>> => app.file_list_state[1] < Len(app.files)

\* the pane a tab title names
TitlePane(title) ==
    CASE title = "Files" -> "files"
      [] title = "Types" -> "types"
      [] title = "Errors" -> "errors"
      [] title = "Logs" -> "logs"
      [] title = "Editor" -> "editor"

\* C30: the pane drawn for selected_tab is the one its tab title names, and
\* the keys served for selected_tab are those of that pane.
C30_PaneMatchesTab ==
    a_pc = "events" =>
        /\ a_drawn = TitlePane(tabs[app.selected_tab + 1])
        /\ KeysPane(app.selected_tab) \in {"nothing", a_drawn}
====
